---- MODULE Spec2Model ----
(***************************************************************************)
(* Model of the order lifecycle tracking and notification core of          *)
(* hyperswipe-server:                                                      *)
(*   - app/services/order_state_machine.py      (OrderStateMachine)        *)
(*   - app/services/industry_grade_order_tracker.py (push / poll tracker)  *)
(*   - app/websocket.py                         (HyperliquidWebSocketManager)*)
(*   - app/services/hyperliquid_api_client.py   (HyperliquidAPIClient)     *)
(*                                                                         *)
(* Sizes are counted in integer units of the smallest size step, so the    *)
(* tracker's comparison abs(sz - size) < 0.001 is equality of units.       *)
(* Wall-clock comparisons are made by the environment: an order becomes    *)
(* `stale` once its submitted_at is 300 s in the past, `expired` once its  *)
(* tracker is older than tracking_duration_seconds.                        *)
(*                                                                         *)
(* The API client reads an absolute clock `now`, counted in ticks.         *)
(*                                                                         *)
(* The specifications share the initial state, but for the notification    *)
(* settings of the linked user:                                            *)
(*   SpecOrders  one tracked order under every event path                  *)
(*   SpecSigned  one order placed through the signing endpoint             *)
(*   SpecPoll    one order followed by the polling loop alone              *)
(*   SpecPos     the account snapshots of positions, under any settings    *)
(*   SpecNotify  SpecSigned under any notification settings                *)
(*   SpecPair    two orders under direct calls of the state machine        *)
(*   SpecCleanup one signed order under the cleanup loop, run fairly       *)
(*   SpecClock   one order under the tracker's clock, for each tracking    *)
(*               strategy                                                  *)
(*   SpecRace    one order under a push frame and a polling pass that are  *)
(*               handled at the same time                                  *)
(*   SpecWsSeq   the multiplexer with every handler run to completion,     *)
(*               over an upstream connection that is lost and re-made      *)
(*   SpecWs      the multiplexer with handlers interleaved at their awaits *)
(*   SpecWsLive  SpecWsSeq with the listener and the reconnect task        *)
(*               scheduled fairly                                          *)
(*   SpecApiSeq  _make_request calls made one after the other              *)
(*   SpecApi     two tasks inside _make_request at the same time           *)
(*   SpecProbe   calls that meet the circuit breaker after its timeout     *)
(*   SpecRate    calls that meet the rate limiter                          *)
(*   SpecBatch   batch_get_order_statuses over every small response        *)
(***************************************************************************)
EXTENDS Integers, Sequences, FiniteSets, TLC

(***************************************************************************)
(* Bounds of the model                                                     *)
(***************************************************************************)
MaxSize == 2
\* fill prices, and the fills and prices of a userFills response
MaxPx == 1
MaxPollPx == 2
MaxPollFills == 2
\* the largest size of an order placed through the signing endpoint
MaxOrderSize == 3
MaxWsEvents == 2
MaxMsgs == 2
\* clock ticks to the second
TicksPerSecond == 2
\* _make_request calls and clock steps of a run
MaxCalls == 6
MaxAdvances == 2
MaxSeqAdvances == 3
MaxRateAdvances == 3
MaxProbeCalls == 9
\* the time the tracker's clock stops at, in seconds (before
\* correlation_seconds and tracking_duration_seconds have passed)
MaxClock == 90
MaxRateCalls == 21
\* tasks that can be inside _make_request at the same time
MaxTasks == 4
\* chat messages of one kind that are told apart: MaxNotes stands for
\* MaxNotes or more
MaxNotes == 2
\* order ids of a batch query and entries of an openOrders response
MaxIds == 2
MaxOpenOrders == 2

\* tracking ids (uuid4 values; 0 stands for `no tracker')
OrderIds == {1, 2}
\* the tracking id of the specifications that follow a single order
OneOrder == {1}
Sizes == 1..MaxSize
Users == {"u1", "u2"}
\* exchange order ids, kept as the strings the tracker compares (str(oid))
Oids == {"101", "102"}
\* a missing exchange_order_id / a fill without oid
NoXid == "None"
Coins == {"ETH", "BTC"}
Assets == {4}
\* downstream client sockets and the tasks of the multiplexer
Clients == {"c1", "c2"}
Listener == "L"
Procs == Clients \cup {Listener}
NoUser == "none"
Channels == {"userEvents", "webData2"}
AllMids == <<"allMids", "">>
UserTopics == Channels \X Users
Topics == {AllMids} \cup UserTopics

(***************************************************************************)
(* order_state_machine.py : states, events, transition table               *)
(***************************************************************************)
OrderState ==
  {"pending", "submitted", "open", "filled", "partially_filled",
   "cancelled", "rejected", "expired", "failed"}

OrderEvent ==
  {"submit", "confirm_open", "partial_fill", "complete_fill",
   "cancel", "reject", "expire", "fail"}

\* mutant of state_transitions: a Filled order can still be cancelled
state_transitions_terminal_leak ==
  [s \in OrderState |->
     CASE s = "pending" ->
            ("submit" :> "submitted") @@ ("fail" :> "failed")
       [] s = "submitted" ->
            ("confirm_open" :> "open") @@ ("reject" :> "rejected") @@
            ("fail" :> "failed") @@ ("complete_fill" :> "filled")
       [] s = "open" ->
            ("partial_fill" :> "partially_filled") @@
            ("complete_fill" :> "filled") @@ ("cancel" :> "cancelled") @@
            ("expire" :> "expired") @@ ("reject" :> "rejected")
       [] s = "partially_filled" ->
            ("partial_fill" :> "partially_filled") @@
            ("complete_fill" :> "filled") @@ ("cancel" :> "cancelled") @@
            ("expire" :> "expired")
       [] s = "filled" -> ("cancel" :> "cancelled")
       [] OTHER -> << >>]

\* mutant of state_transitions: ConfirmOpen accepted straight from Pending
state_transitions_pending_open ==
  [s \in OrderState |->
     CASE s = "pending" ->
            ("submit" :> "submitted") @@ ("fail" :> "failed") @@
            ("confirm_open" :> "open")
       [] s = "submitted" ->
            ("confirm_open" :> "open") @@ ("reject" :> "rejected") @@
            ("fail" :> "failed") @@ ("complete_fill" :> "filled")
       [] s = "open" ->
            ("partial_fill" :> "partially_filled") @@
            ("complete_fill" :> "filled") @@ ("cancel" :> "cancelled") @@
            ("expire" :> "expired") @@ ("reject" :> "rejected")
       [] s = "partially_filled" ->
            ("partial_fill" :> "partially_filled") @@
            ("complete_fill" :> "filled") @@ ("cancel" :> "cancelled") @@
            ("expire" :> "expired")
       [] OTHER -> << >>]

\* OrderStateMachine._setup_state_machine: self.state_transitions
state_transitions ==
  [s \in OrderState |->
     CASE s = "pending" ->
            ("submit" :> "submitted") @@ ("fail" :> "failed")
       [] s = "submitted" ->
            ("confirm_open" :> "open") @@ ("reject" :> "rejected") @@
            ("fail" :> "failed") @@ ("complete_fill" :> "filled")
       [] s = "open" ->
            ("partial_fill" :> "partially_filled") @@
            ("complete_fill" :> "filled") @@ ("cancel" :> "cancelled") @@
            ("expire" :> "expired") @@ ("reject" :> "rejected")
       [] s = "partially_filled" ->
            ("partial_fill" :> "partially_filled") @@
            ("complete_fill" :> "filled") @@ ("cancel" :> "cancelled") @@
            ("expire" :> "expired")
       [] OTHER -> << >>]

\* OrderStateMachine.is_terminal_state
is_terminal_state(s) ==
  s \in {"filled", "cancelled", "rejected", "expired", "failed"}

Min(a, b) == IF a <= b THEN a ELSE b

\* TrackingConfig.max_concurrent_orders as set by OrderTrackingService
max_concurrent_orders == 500

\* CircuitBreakerConfig
failure_threshold == 5
recovery_timeout == 60
half_open_max_calls == 3

\* HyperliquidAPIClient.__init__
max_requests_per_second == 10
max_retries == 3
base_delay == 1
max_delay == 30

Tasks == 1..MaxTasks

VARIABLES
  \* ---- order tracking (OrderStateMachine + IndustryGradeOrderTracker)
  created,        \* tracking ids minted so far (uuid4: never reused)
  ctx,            \* the OrderContext object of every created order
  sm_orders,      \* keys of OrderStateMachine.orders
  order_trackers, \* keys of IndustryGradeOrderTracker.order_trackers, in insertion order
  is_active,      \* trackers whose is_active flag is set
  signing,        \* orders whose _start_order_tracking has not yet triggered SUBMIT
  stale,          \* orders whose submitted_at is 300 s or more in the past
  expired,        \* trackers older than tracking_duration_seconds
  orders_to_poll, \* orders the last pass of _polling_loop selected
  polling,        \* orders of the running poll pass whose result is outstanding
  ws_events,      \* stats['websocket_events_processed']
  notifications,  \* chat messages sent for order events so far, by kind
  fill_price      \* metadata['fill_price'] of every order, as num / den

orderVars ==
  <<created, ctx, sm_orders, order_trackers, is_active, signing, stale,
    expired, orders_to_poll, polling, ws_events, notifications, fill_price>>

VARIABLES
  \* ---- HyperliquidWebSocketManager and the /ws endpoint tasks
  client_connections,   \* self.client_connections
  client_subscriptions, \* self.client_subscriptions: client -> userAddress
  subscribed_users,     \* self.subscribed_users
  is_connected,         \* self.is_connected
  hyperliquid_ws,       \* self.hyperliquid_ws: "none", "open" or "closed"
  reconnect_task,       \* self.reconnect_task: "none", "sleeping" or "done"
  reconnect_tasks,      \* the _reconnect tasks that are not done
  listeners,            \* the listen_to_hyperliquid tasks that are running
  started,              \* the lifespan start-up has run
  ep,                   \* websocket_endpoint task of each client socket
  alive,                \* the peer of each client socket still takes frames
  cont,                 \* what is left to run of each task's current handler
  bc,                   \* the broadcast loop of the listener
  hl_active,            \* subscribe frames the upstream session holds per topic
  net,                  \* subscribe minus unsubscribe frames sent per topic
  msgs                  \* client messages handled so far

wsVars ==
  <<client_connections, client_subscriptions, subscribed_users, is_connected,
    hyperliquid_ws, reconnect_task, reconnect_tasks, listeners, started, ep, alive, cont, bc,
    hl_active, net, msgs>>

VARIABLES
  \* ---- HyperliquidAPIClient and its CircuitBreaker
  circuit_breaker,    \* state, failure_count, last_failure_time, half_open_calls
  request_timestamps, \* self.request_timestamps
  now,                \* datetime.utcnow(), in ticks
  call,               \* the _make_request calls in progress, one per task
  ret,                \* what the _make_request call that returned last did
  streak,             \* failed calls returned since the last successful one
  dispatched,         \* send times of the HTTP requests of the last second
  calls,              \* _make_request calls made so far
  advances,           \* steps of the clock so far
  batch               \* the last batch_get_order_statuses call and its result

apiVars ==
  <<circuit_breaker, request_timestamps, now, call, ret, streak, dispatched,
    calls, advances, batch>>

VARIABLES
  \* ---- position snapshots and chat notification settings
  user_positions,        \* self.user_positions: user -> coin -> last position
  sent_notifications,    \* self.sent_notifications: the P&L alert keys
  alerts,                \* P&L alerts of each key since the position opened
  pos_out,               \* the messages of the last frame of positions
  notification_settings  \* the notification_settings document of each user

posVars ==
  <<user_positions, sent_notifications, alerts, pos_out, notification_settings>>

VARIABLES
  \* ---- a push frame and a polling pass handled at the same time
  push,  \* the handle_websocket_event call in progress: what is left of it
  race   \* the state and the inputs the two handlers began with

raceVars == <<push, race>>

VARIABLES
  \* ---- the tracker's clock: TrackingConfig and the times of each OrderTracker
  clock,                 \* datetime.utcnow(), in seconds
  strategy,              \* config.strategy
  created_at,            \* tracker.created_at
  last_websocket_update, \* tracker.last_websocket_update
  next_pass,             \* the time the sleep of _polling_loop ends
  pushed                 \* orders a push frame had a fill or an order update for

clockVars ==
  <<clock, strategy, created_at, last_websocket_update, next_pass, pushed>>

vars == <<orderVars, wsVars, apiVars, posVars, raceVars, clockVars>>

\* OrderContext fields the tracker and the state machine read or write
NoCtx ==
  [user |-> "none", asset_index |-> 0, size |-> 0, filled_size |-> 0,
   remaining_size |-> 0, state |-> "none", previous_state |-> "none",
   exchange_order_id |-> NoXid]

\* event_data passed along with an event
\* a price as the quotient num / den; den = 0 when event_data has no
\* fill_price
NoPrice == [num |-> 0, den |-> 0]

NoData == [fill_size |-> 0, exchange_order_id |-> NoXid, fill_price |-> NoPrice]

RangeOf(seq) == {seq[i] : i \in 1..Len(seq)}

RemoveFrom(seq, x) == SelectSeq(seq, LAMBDA y : y # x)

(***************************************************************************)
(* OrderStateMachine.trigger_event and its handlers.  A machine value m is *)
(* [ctx, ret]: the contexts and the value the last call returned.          *)
(***************************************************************************)
\* _handle_submit_event, _handle_partial_fill_event, _handle_complete_fill_event
\* (the other event handlers only write free-text metadata)
event_handler(order, e, data) ==
  CASE e = "submit" ->
         IF data.exchange_order_id # NoXid
         THEN [order EXCEPT !.exchange_order_id = data.exchange_order_id]
         ELSE order
    [] e = "partial_fill" ->
         LET f == Min(order.filled_size + data.fill_size, order.size)
         IN [order EXCEPT !.filled_size = f, !.remaining_size = order.size - f]
    [] e = "complete_fill" ->
         [order EXCEPT !.filled_size = order.size, !.remaining_size = 0]
    [] OTHER -> order

\* OrderStateMachine.get_order_state (metadata['state'], default 'pending')
get_order_state(c, keys, o) ==
  IF o \in keys THEN c[o].state ELSE "none"

\* trigger_event with metadata.update(event_data) ahead of the validity check
trigger_event_update_first(m, keys, o, e, data) ==
  IF o \notin keys
  THEN [m EXCEPT !.ret = FALSE]
  ELSE
    LET order == m.ctx[o]
        current_state == order.state
        valid_events == state_transitions[current_state]
        m1 == [m EXCEPT !.price[o] = IF data.fill_price = NoPrice THEN @
                                     ELSE data.fill_price]
    IN IF e \notin DOMAIN valid_events
       THEN [m1 EXCEPT !.ret = FALSE]
       ELSE
         LET new_state == valid_events[e]
             handled == event_handler(order, e, data)
             moved == [handled EXCEPT !.state = new_state,
                                      !.previous_state = current_state]
         IN [m1 EXCEPT !.ctx = [m.ctx EXCEPT ![o] = moved], !.ret = TRUE]

trigger_event(m, keys, o, e, data) ==
  IF o \notin keys
  THEN [m EXCEPT !.ret = FALSE]
  ELSE
    LET order == m.ctx[o]
        current_state == order.state
        valid_events == state_transitions[current_state]
    IN IF e \notin DOMAIN valid_events
       THEN [m EXCEPT !.ret = FALSE]
       ELSE
         LET new_state == valid_events[e]
             handled == event_handler(order, e, data)
             moved == [handled EXCEPT !.state = new_state,
                                      !.previous_state = current_state]
         IN [m EXCEPT !.ctx = [m.ctx EXCEPT ![o] = moved], !.ret = TRUE,
                      !.price[o] = IF data.fill_price = NoPrice THEN @
                                   ELSE data.fill_price]

Machine ==
  [ctx |-> ctx, ret |-> FALSE, sent |-> notifications, price |-> fill_price]

(***************************************************************************)
(* OrderTrackingService._handle_order_notification: the chat messages of   *)
(* the tracker's notifications                                             *)
(***************************************************************************)
\* the users telegram_service.get_user_chat_id finds a chat id for
LinkedUsers == {"u1"}

\* the event types _handle_order_notification sends a chat message for
\* (order_tracking_started only with debug logging, which main.py does not
\* turn on; the other types are logged or ignored)
ChatKinds == {"order_filled", "order_partially_filled", "order_cancelled_detected"}

\* OrderTracker.send_notification -> _handle_notification ->
\* _handle_order_notification for the order context `order`
send_notification(m, order, event_type) ==
  IF order.user \in LinkedUsers /\ event_type \in ChatKinds
  THEN [m EXCEPT !.sent[event_type] = Min(@ + 1, MaxNotes)]
  ELSE m

(***************************************************************************)
(* IndustryGradeOrderTracker: push frames                                  *)
(***************************************************************************)
\* a fill of a userEvents frame: oid, coin, sz, px
Prices == 1..MaxPx
Fills == [oid : Oids \cup {NoXid}, coin : Coins, sz : Sizes, px : Prices]

\* an entry of the frame's userEvents list (type 'order'): oid, status
Statuses == {"open", "cancelled", "rejected", "filled"}
OrderUpdates == [oid : Oids \cup {NoXid}, status : Statuses]

\* the coin -> asset index table of _process_fill_events
CoinIndex(coin) ==
  CASE coin = "ETH" -> 4
    [] coin = "BTC" -> 3
    [] OTHER -> -1

\* handle_websocket_event: the user's active trackers, in dict order
UserOrders(c, u) ==
  SelectSeq(order_trackers, LAMBDA o : c[o].user = u /\ o \in is_active)

\* the correlation loop of _process_fill_events; 0 when no tracker matches
RECURSIVE MatchFill(_, _, _, _)
MatchFill(c, uo, fill, idx) ==
  IF idx > Len(uo) THEN 0
  ELSE LET t == uo[idx] IN
    IF c[t].exchange_order_id = fill.oid THEN t
    ELSE IF /\ c[t].exchange_order_id = NoXid
            /\ CoinIndex(fill.coin) = c[t].asset_index
            /\ fill.sz = c[t].size
            /\ t \notin stale
         THEN t
         ELSE MatchFill(c, uo, fill, idx + 1)

\* _process_fill_events for one fill without the order_filled notification
ProcessFill_silent(m, uo, fill) ==
  IF fill.oid = NoXid THEN m
  ELSE LET t == MatchFill(m.ctx, uo, fill, 1) IN
    IF t = 0 THEN m
    ELSE
      LET o0 == m.ctx[t]
          filled == o0.filled_size + fill.sz
          o1 == [o0 EXCEPT !.exchange_order_id = fill.oid,
                           !.filled_size = filled,
                           !.remaining_size = o0.size - filled]
          m1 == [m EXCEPT !.ctx = [m.ctx EXCEPT ![t] = o1]]
          data == [fill_size |-> fill.sz, exchange_order_id |-> NoXid,
                   fill_price |-> [num |-> fill.px, den |-> 1]]
      IN IF o1.remaining_size <= 0
         THEN trigger_event(m1, sm_orders, t, "complete_fill", data)
         ELSE LET r == trigger_event(m1, sm_orders, t, "partial_fill", data)
              IN send_notification(r, r.ctx[t], "order_partially_filled")

\* the body of _process_fill_events for one fill
ProcessFill(m, uo, fill) ==
  IF fill.oid = NoXid THEN m
  ELSE LET t == MatchFill(m.ctx, uo, fill, 1) IN
    IF t = 0 THEN m
    ELSE
      LET o0 == m.ctx[t]
          filled == o0.filled_size + fill.sz
          o1 == [o0 EXCEPT !.exchange_order_id = fill.oid,
                           !.filled_size = filled,
                           !.remaining_size = o0.size - filled]
          m1 == [m EXCEPT !.ctx = [m.ctx EXCEPT ![t] = o1]]
          data == [fill_size |-> fill.sz, exchange_order_id |-> NoXid,
                   fill_price |-> [num |-> fill.px, den |-> 1]]
      IN IF o1.remaining_size <= 0
         THEN LET r == trigger_event(m1, sm_orders, t, "complete_fill", data)
              IN send_notification(r, r.ctx[t], "order_filled")
         ELSE LET r == trigger_event(m1, sm_orders, t, "partial_fill", data)
              IN send_notification(r, r.ctx[t], "order_partially_filled")

RECURSIVE process_fill_events(_, _, _, _)
process_fill_events(m, uo, fills, i) ==
  IF i > Len(fills) THEN m
  ELSE process_fill_events(ProcessFill(m, uo, fills[i]), uo, fills, i + 1)

\* the tracker of user_orders holding this exchange order id; 0 when none
RECURSIVE MatchXid(_, _, _, _)
MatchXid(c, uo, oid, idx) ==
  IF idx > Len(uo) THEN 0
  ELSE IF c[uo[idx]].exchange_order_id = oid THEN uo[idx]
       ELSE MatchXid(c, uo, oid, idx + 1)

\* the body of _process_user_events for one event of type 'order'
ProcessUserEvent(m, uo, ev) ==
  IF ev.oid = NoXid THEN m
  ELSE LET t == MatchXid(m.ctx, uo, ev.oid, 1) IN
    IF t = 0 THEN m
    ELSE CASE ev.status = "open" ->
                trigger_event(m, sm_orders, t, "confirm_open", NoData)
           [] ev.status = "cancelled" ->
                trigger_event(m, sm_orders, t, "cancel", NoData)
           [] ev.status = "rejected" ->
                trigger_event(m, sm_orders, t, "reject", NoData)
           [] OTHER -> m

RECURSIVE process_user_events(_, _, _, _)
process_user_events(m, uo, evs, i) ==
  IF i > Len(evs) THEN m
  ELSE process_user_events(ProcessUserEvent(m, uo, evs[i]), uo, evs, i + 1)

\* the fills / userEvents lists a push frame may carry
PushFrames ==
  {[fills |-> <<f>>, userEvents |-> << >>] : f \in Fills} \cup
  {[fills |-> << >>, userEvents |-> <<e>>] : e \in OrderUpdates}

\* OrderTracker.should_continue_tracking
should_continue_tracking(o) ==
  /\ o \in is_active
  /\ o \notin expired
  /\ ~is_terminal_state(ctx[o].state)

OrderInit ==
  /\ created = {}
  /\ ctx = [o \in OrderIds |-> NoCtx]
  /\ sm_orders = {}
  /\ order_trackers = << >>
  /\ is_active = {}
  /\ signing = {}
  /\ stale = {}
  /\ expired = {}
  /\ orders_to_poll = {}
  /\ polling = {}
  /\ ws_events = 0
  /\ notifications = [k \in ChatKinds |-> 0]
  /\ fill_price = [o \in OrderIds |-> NoPrice]

\* routes/signing.py _start_order_tracking up to the return of track_order:
\* a fresh tracking id, an OrderContext in 'pending' with no exchange id,
\* create_order in the state machine and a new tracker
StartOrderTracking(o, u, a, sz) ==
  /\ o \notin created
  /\ Len(order_trackers) < max_concurrent_orders
  /\ o \notin RangeOf(order_trackers)
  /\ o \notin sm_orders
  /\ created' = created \cup {o}
  /\ ctx' = [ctx EXCEPT ![o] =
               [user |-> u, asset_index |-> a, size |-> sz, filled_size |-> 0,
                remaining_size |-> sz - 0, state |-> "pending",
                previous_state |-> "none", exchange_order_id |-> NoXid]]
  /\ sm_orders' = sm_orders \cup {o}
  /\ order_trackers' = Append(order_trackers, o)
  /\ is_active' = is_active \cup {o}
  /\ signing' = signing \cup {o}
  /\ UNCHANGED <<stale, expired, polling, ws_events,
                 orders_to_poll, notifications, fill_price, wsVars, apiVars, posVars, raceVars, clockVars>>

\* a call of OrderStateMachine.trigger_event from outside the tracker
Trigger(o, e, data) ==
  LET m == trigger_event(Machine, sm_orders, o, e, data) IN
    /\ ctx' = m.ctx
    /\ fill_price' = m.price
    /\ stale' = IF m.ret /\ m.ctx[o].state = "submitted" /\ ctx[o].state = "pending"
               THEN stale \ {o} ELSE stale
    /\ UNCHANGED <<created, sm_orders, order_trackers, is_active, expired,
                   polling, ws_events,
                 orders_to_poll, notifications, wsVars, apiVars, posVars, raceVars, clockVars>>

\* routes/signing.py _start_order_tracking: the SUBMIT that follows track_order
SigningSubmit(o) ==
  /\ o \in signing
  /\ signing' = signing \ {o}
  /\ Trigger(o, "submit", NoData)

\* OrderStateMachine.trigger_event called directly with any event
DirectTrigger(o, e, data) ==
  /\ o \in created
  /\ UNCHANGED signing
  /\ Trigger(o, e, data)

\* IndustryGradeOrderTracker.handle_websocket_event: the machine after the
\* fills and then the userEvents of a frame for user u have been processed
handle_websocket_event(m, u, fills, updates) ==
  LET uo == UserOrders(m.ctx, u)
      m1 == process_fill_events(m, uo, fills, 1)
  IN process_user_events(m1, uo, updates, 1)

\* IndustryGradeOrderTracker.handle_websocket_event
HandleWebsocketEvent(u, fills, updates) ==
  LET uo == UserOrders(ctx, u)
      m2 == handle_websocket_event(Machine, u, fills, updates)
  IN /\ ws_events < MaxWsEvents
     /\ uo # << >>
     /\ ctx' = m2.ctx
     /\ ws_events' = ws_events + 1
     /\ notifications' = m2.sent
     /\ fill_price' = m2.price
     /\ UNCHANGED <<created, sm_orders, order_trackers, is_active, signing,
                    stale, expired, polling,
                 orders_to_poll, wsVars, apiVars, posVars, raceVars, clockVars>>

\* a pass of _polling_loop / _poll_user_orders up to the batch request: S is
\* orders_to_poll, the orders that pass should_continue_tracking and (by the
\* clock) should_use_polling_fallback; the batch request covers those of
\* them that have an exchange order id, and is not made when none has
PollStart(S) ==
  /\ polling = {}
  /\ S # {}
  /\ \A o \in S : o \in RangeOf(order_trackers) /\ should_continue_tracking(o)
  /\ orders_to_poll' = S
  /\ polling' = {o \in S : ctx[o].exchange_order_id # NoXid}
  /\ UNCHANGED <<created, ctx, sm_orders, order_trackers, is_active, signing,
                 stale, expired, ws_events, notifications, fill_price,
                 wsVars, apiVars, posVars, raceVars, clockVars>>

\* int(exchange_order_id or 0)
IntOf(xid) ==
  CASE xid = "101" -> 101
    [] xid = "102" -> 102
    [] OTHER -> 0

\* the entries of a userFills response: oid, px, sz
ApiFills(maxPx) == [oid : {IntOf(x) : x \in Oids}, px : 1..maxPx, sz : Sizes]

\* the userFills responses of at most n entries
FillLists(maxPx, n) == UNION {[1..k -> ApiFills(maxPx)] : k \in 0..n}

\* sum(sz) over the first i entries of a fills list
RECURSIVE SumSz(_, _)
SumSz(fills, i) ==
  IF i = 0 THEN 0 ELSE SumSz(fills, i - 1) + fills[i].sz

\* sum(px * sz) over the first i entries of a fills list
RECURSIVE SumPxSz(_, _)
SumPxSz(fills, i) ==
  IF i = 0 THEN 0 ELSE SumPxSz(fills, i - 1) + fills[i].px * fills[i].sz

\* _handle_open_order_update
handle_open_order_update(m, o) ==
  IF get_order_state(m.ctx, sm_orders, o) \in {"pending", "submitted"}
  THEN trigger_event(m, sm_orders, o, "confirm_open", NoData)
  ELSE m

\* _handle_missing_order with the price of the first matching fill
handle_missing_order_first_price(m, o, fills_success, recent_fills) ==
  IF ~fills_success THEN m
  ELSE
    LET xid == IntOf(m.ctx[o].exchange_order_id)
        matching_fills == SelectSeq(recent_fills, LAMBDA fill : fill.oid = xid)
    IN IF matching_fills # << >>
       THEN LET total_filled ==
                  SumSz(matching_fills, Len(matching_fills))
                r == trigger_event(m, sm_orders, o, "complete_fill",
                       [fill_size |-> total_filled, exchange_order_id |-> NoXid,
                        fill_price |-> [num |-> matching_fills[1].px, den |-> 1]])
            IN send_notification(r, r.ctx[o], "order_filled_via_polling")
       ELSE LET r == trigger_event(m, sm_orders, o, "cancel", NoData)
            IN send_notification(r, r.ctx[o], "order_cancelled_detected")

\* _handle_missing_order, given what get_user_fills returned
handle_missing_order(m, o, fills_success, recent_fills) ==
  IF ~fills_success THEN m
  ELSE
    LET xid == IntOf(m.ctx[o].exchange_order_id)
        matching_fills == SelectSeq(recent_fills, LAMBDA fill : fill.oid = xid)
    IN IF matching_fills # << >>
       THEN LET total_filled ==
                  SumSz(matching_fills, Len(matching_fills))
                paid ==
                  SumPxSz(matching_fills, Len(matching_fills))
                r == trigger_event(m, sm_orders, o, "complete_fill",
                       [fill_size |-> total_filled, exchange_order_id |-> NoXid,
                        fill_price |-> [num |-> paid, den |-> total_filled]])
            IN send_notification(r, r.ctx[o], "order_filled_via_polling")
       ELSE LET r == trigger_event(m, sm_orders, o, "cancel", NoData)
            IN send_notification(r, r.ctx[o], "order_cancelled_detected")

\* _poll_user_orders: the result for one order (found: it is among the open
\* orders), through _handle_open_order_update or _handle_missing_order
PollApply(o, found, fills_success, recent_fills) ==
  /\ o \in polling
  /\ polling' = polling \ {o}
  /\ LET m == IF found THEN handle_open_order_update(Machine, o)
              ELSE handle_missing_order(Machine, o, fills_success, recent_fills)
     IN /\ ctx' = m.ctx
        /\ notifications' = m.sent
        /\ fill_price' = m.price
  /\ UNCHANGED <<created, sm_orders, order_trackers, is_active, signing,
                 stale, expired, ws_events,
                 orders_to_poll, wsVars, apiVars, posVars, raceVars, clockVars>>

\* _poll_user_orders: the batch request raised or returned nothing
PollFail ==
  /\ polling # {}
  /\ polling' = {}
  /\ UNCHANGED <<created, ctx, sm_orders, order_trackers, is_active, signing,
                 stale, expired, ws_events,
                 orders_to_poll, notifications, fill_price, wsVars, apiVars, posVars, raceVars, clockVars>>

\* IndustryGradeOrderTracker.stop_tracking_order
StopTrackingOrder(o) ==
  /\ o \in RangeOf(order_trackers)
  /\ o \in is_active
  /\ is_active' = is_active \ {o}
  /\ UNCHANGED <<created, ctx, sm_orders, order_trackers, signing, stale,
                 expired, polling, ws_events,
                 orders_to_poll, notifications, fill_price, wsVars, apiVars, posVars, raceVars, clockVars>>

\* _cleanup_inactive_orders: one tracker that fails should_continue_tracking
CleanupTracker(o) ==
  /\ o \in RangeOf(order_trackers)
  /\ ~should_continue_tracking(o)
  /\ order_trackers' = RemoveFrom(order_trackers, o)
  /\ UNCHANGED <<created, ctx, sm_orders, is_active, signing, stale, expired,
                 polling, ws_events,
                 orders_to_poll, notifications, fill_price, wsVars, apiVars, posVars, raceVars, clockVars>>

\* OrderStateMachine.cleanup_old_orders: terminal orders last updated more
\* than max_age_hours ago (S: those the clock finds old enough)
CleanupOldOrders(S) ==
  /\ S # {}
  /\ S \subseteq sm_orders
  /\ \A o \in S : is_terminal_state(ctx[o].state)
  /\ sm_orders' = sm_orders \ S
  /\ UNCHANGED <<created, ctx, order_trackers, is_active, signing, stale,
                 expired, polling, ws_events,
                 orders_to_poll, notifications, fill_price, wsVars, apiVars, posVars, raceVars, clockVars>>

\* the clock passes 300 s after an order's submitted_at
BecomeStale(o) ==
  /\ o \in created
  /\ o \notin stale
  /\ stale' = stale \cup {o}
  /\ UNCHANGED <<created, ctx, sm_orders, order_trackers, is_active, signing,
                 expired, polling, ws_events,
                 orders_to_poll, notifications, fill_price, wsVars, apiVars, posVars, raceVars, clockVars>>

\* the clock passes tracking_duration_seconds after a tracker's created_at
BecomeExpired(o) ==
  /\ o \in created
  /\ o \in stale
  /\ o \notin expired
  /\ expired' = expired \cup {o}
  /\ UNCHANGED <<created, ctx, sm_orders, order_trackers, is_active, signing,
                 stale, polling, ws_events,
                 orders_to_poll, notifications, fill_price, wsVars, apiVars, posVars, raceVars, clockVars>>

\* the events and event_data of a direct call
DirectCalls ==
  {[event |-> "submit", data |-> [NoData EXCEPT !.exchange_order_id = x]] :
     x \in Oids \cup {NoXid}} \cup
  {[event |-> "partial_fill", data |-> [NoData EXCEPT !.fill_size = f]] :
     f \in Sizes} \cup
  {[event |-> e, data |-> NoData] : e \in OrderEvent \ {"submit", "partial_fill"}}

OrderNext ==
  \/ \E o \in OneOrder, u \in Users, a \in Assets, sz \in Sizes :
       StartOrderTracking(o, u, a, sz)
  \/ \E o \in OneOrder : SigningSubmit(o)
  \/ \E o \in OneOrder, c \in DirectCalls : DirectTrigger(o, c.event, c.data)
  \/ \E u \in Users, fr \in PushFrames :
       HandleWebsocketEvent(u, fr.fills, fr.userEvents)
  \/ \E S \in SUBSET OneOrder : PollStart(S)
  \/ \E o \in OneOrder, found, fills_success \in BOOLEAN,
        recent_fills \in FillLists(MaxPx, 1) :
       PollApply(o, found, fills_success, recent_fills)
  \/ PollFail
  \/ \E o \in OneOrder : StopTrackingOrder(o)
  \/ \E o \in OneOrder : CleanupTracker(o)
  \/ \E S \in SUBSET OneOrder : CleanupOldOrders(S)
  \/ \E o \in OneOrder : BecomeStale(o)
  \/ \E o \in OneOrder : BecomeExpired(o)

\* orders that are placed through the signing endpoint only, and what the
\* push stream, the polling loop and the clock do to them
SignedNext ==
  \/ \E o \in OneOrder, u \in Users, a \in Assets, sz \in 1..MaxOrderSize :
       StartOrderTracking(o, u, a, sz)
  \/ \E o \in OneOrder : SigningSubmit(o)
  \/ \E u \in Users, fr \in PushFrames :
       HandleWebsocketEvent(u, fr.fills, fr.userEvents)
  \/ \E S \in SUBSET OneOrder : PollStart(S)
  \/ \E o \in OneOrder, found, fills_success \in BOOLEAN,
        recent_fills \in FillLists(MaxPx, 1) :
       PollApply(o, found, fills_success, recent_fills)
  \/ PollFail
  \/ \E o \in OneOrder : BecomeStale(o)

\* orders that get their exchange order id with the SUBMIT event and are
\* followed by the polling loop alone, with no push frames
PollNext ==
  \/ \E o \in OneOrder, u \in Users, a \in Assets, sz \in Sizes :
       StartOrderTracking(o, u, a, sz)
  \/ \E o \in OneOrder, c \in DirectCalls : DirectTrigger(o, c.event, c.data)
  \/ \E S \in SUBSET OneOrder : PollStart(S)
  \/ \E o \in OneOrder, found, fills_success \in BOOLEAN,
        recent_fills \in FillLists(MaxPollPx, MaxPollFills) :
       PollApply(o, found, fills_success, recent_fills)
  \/ PollFail

(***************************************************************************)
(* websocket.py : HyperliquidWebSocketManager.  A handler is run as a list *)
(* of the statements it still has to execute; a task gives up control      *)
(* only at an await that really suspends: a frame written to the open      *)
(* upstream socket, or a frame written to a client socket whose peer is    *)
(* there.                                                                  *)
(***************************************************************************)
Ins(i, m, ch, u, w) == [i |-> i, m |-> m, ch |-> ch, u |-> u, w |-> w]

Stmt(i, u, w) == Ins(i, "", "", u, w)

NoBc ==
  [phase |-> "idle", kind |-> "", user |-> NoUser, size |-> 0, rest |-> << >>,
   failed |-> << >>, got |-> {}, start |-> {}]

\* the manager's fields a handler reads and writes, with the statements left
Mgr(todo) ==
  [conns |-> client_connections, subs |-> client_subscriptions,
   susers |-> subscribed_users, active |-> hl_active, net |-> net, bc |-> bc,
   err |-> FALSE, todo |-> todo]

\* still_subscribed of remove_client and _cleanup_user_subscription
still_subscribed(s, u, w) ==
  \E c \in Clients \ {w} : s.subs[c] = u /\ c \in s.conns

\* unsubscribe_user_from_hyperliquid followed by subscribed_users.discard
unsubscribe_user_from_hyperliquid(u) ==
  <<Ins("send", "unsubscribe", "webData2", u, ""),
    Ins("send", "unsubscribe", "userEvents", u, ""),
    Stmt("discard", u, "")>>

\* the frame reaches the upstream session
SendFrame(s, m, t) ==
  IF m = "subscribe"
  THEN [s EXCEPT !.active[t] = @ + 1, !.net[t] = @ + 1]
  ELSE [s EXCEPT !.active[t] = 0, !.net[t] = @ - 1]

\* _cleanup_disconnected_clients: remove_client for each client of
\* disconnected_clients, a set walked in the slot order of client_connections
_cleanup_disconnected_clients(failed) ==
  [i \in 1..Len(failed) |-> Stmt("remove", NoUser, failed[i])]

\* runs the statements of s.todo up to the next suspension (atomic = FALSE)
\* or to the end of the handler (atomic = TRUE)
RECURSIVE Exec(_, _, _, _, _)
Exec(s, ws, ic, al, atomic) ==
  IF s.todo = << >> THEN s
  ELSE
    LET ins == Head(s.todo)
        rest == Tail(s.todo)
        go(s1) == Exec(s1, ws, ic, al, atomic)
    IN
    CASE ins.i = "send" ->
           \* subscribe_to_hyperliquid
           IF ws # "none" /\ ic
           THEN IF ws = "open"
                THEN LET s1 == [SendFrame(s, ins.m, <<ins.ch, ins.u>>)
                                  EXCEPT !.todo = rest]
                     IN IF atomic THEN go(s1) ELSE s1
                ELSE go([s EXCEPT !.todo = rest])
           ELSE go([s EXCEPT !.todo = rest])
      [] ins.i = "subscribe" ->
           \* handle_user_data_subscription
           LET old == s.subs[ins.w] IN
           go([s EXCEPT !.todo =
                 (IF old # NoUser /\ old # ins.u
                  THEN <<Stmt("cleanup", old, ins.w)>> ELSE << >>)
                 \o <<Stmt("store", ins.u, ins.w), Stmt("checksub", ins.u, "")>>
                 \o rest])
      [] ins.i = "store" ->
           go([s EXCEPT !.subs[ins.w] = ins.u, !.todo = rest])
      [] ins.i = "checksub" ->
           IF ins.u \notin s.susers
           THEN go([s EXCEPT !.todo =
                      <<Ins("send", "subscribe", "userEvents", ins.u, ""),
                        Ins("send", "subscribe", "webData2", ins.u, ""),
                        Stmt("add", ins.u, "")>> \o rest])
           ELSE go([s EXCEPT !.todo = rest])
      [] ins.i = "add" ->
           go([s EXCEPT !.susers = @ \cup {ins.u}, !.todo = rest])
      [] ins.i = "discard" ->
           go([s EXCEPT !.susers = @ \ {ins.u}, !.todo = rest])
      [] ins.i = "unsubscribe" ->
           \* handle_user_data_unsubscription
           IF s.subs[ins.w] = ins.u
           THEN go([s EXCEPT !.subs[ins.w] = NoUser,
                             !.todo = <<Stmt("cleanup", ins.u, ins.w)>> \o rest])
           ELSE go([s EXCEPT !.todo = rest])
      [] ins.i = "cleanup" ->
           \* _cleanup_user_subscription
           IF ~still_subscribed(s, ins.u, ins.w) /\ ins.u \in s.susers
           THEN go([s EXCEPT !.todo =
                      unsubscribe_user_from_hyperliquid(ins.u) \o rest])
           ELSE go([s EXCEPT !.todo = rest])
      [] ins.i = "remove" ->
           \* remove_client
           LET s1 == [s EXCEPT !.conns = @ \ {ins.w}]
               u == s.subs[ins.w]
           IN IF u # NoUser
              THEN go([s1 EXCEPT !.todo =
                         (IF ~still_subscribed(s1, u, ins.w)
                          THEN unsubscribe_user_from_hyperliquid(u)
                          ELSE << >>)
                         \o <<Stmt("del", NoUser, ins.w)>> \o rest])
              ELSE go([s1 EXCEPT !.todo = rest])
      [] ins.i = "del" ->
           \* del self.client_subscriptions[websocket]: KeyError when the
           \* entry is already gone
           IF s.subs[ins.w] = NoUser
           THEN [s EXCEPT !.todo = << >>, !.err = TRUE]
           ELSE go([s EXCEPT !.subs[ins.w] = NoUser, !.todo = rest])
      [] ins.i = "iter" ->
           \* the for loop of broadcast_to_all_clients / broadcast_to_user_clients
           IF Cardinality(s.conns) # s.bc.size
           THEN \* RuntimeError: Set changed size during iteration
                [s EXCEPT !.todo = << >>, !.err = TRUE]
           ELSE IF s.bc.rest = << >>
           THEN go([s EXCEPT !.bc = [NoBc EXCEPT !.phase = "cleanup"],
                             !.todo = _cleanup_disconnected_clients(s.bc.failed)
                                      \o rest])
           ELSE
             LET x == Head(s.bc.rest)
                 s1 == [s EXCEPT !.bc.rest = Tail(@)]
             IN IF x \notin s.conns THEN go(s1)
                ELSE IF s.bc.kind = "all" \/ s.subs[x] = s.bc.user
                THEN IF al[x]
                     THEN LET s2 == [s1 EXCEPT !.bc.got = @ \cup {x}]
                          IN IF atomic THEN go(s2) ELSE s2
                     ELSE go([s1 EXCEPT !.bc.failed = Append(@, x)])
                ELSE go(s1)
      [] OTHER -> s

\* all orders in which a set of clients can be walked
Orders(S) ==
  {q \in [1..Cardinality(S) -> S] : \A i, j \in 1..Cardinality(S) : i # j => q[i] # q[j]}

WsInit ==
  /\ client_connections = {}
  /\ client_subscriptions = [c \in Clients |-> NoUser]
  /\ subscribed_users = {}
  /\ is_connected = FALSE
  /\ hyperliquid_ws = "none"
  /\ reconnect_task = "none"
  /\ reconnect_tasks = 0
  /\ listeners = 0
  /\ started = FALSE
  /\ ep = [c \in Clients |-> "new"]
  /\ alive = [c \in Clients |-> TRUE]
  /\ cont = [p \in Procs |-> << >>]
  /\ bc = NoBc
  /\ hl_active = [t \in Topics |-> 0]
  /\ net = [t \in UserTopics |-> 0]
  /\ msgs = 0

\* the task p runs the statements todo; what it leaves is kept in cont[p]
Run(p, todo, atomic) ==
  LET s == Exec(Mgr(todo), hyperliquid_ws, is_connected, alive, atomic) IN
    /\ client_connections' = s.conns
    /\ client_subscriptions' = s.subs
    /\ subscribed_users' = s.susers
    /\ hl_active' = s.active
    /\ net' = s.net
    /\ cont' = [cont EXCEPT ![p] = s.todo]
    /\ bc' = IF p = Listener /\ s.todo = << >> THEN NoBc ELSE s.bc
    /\ ep' = IF p \in Clients /\ s.todo = << >> /\ ep[p] = "closing"
             THEN [ep EXCEPT ![p] = "closed"] ELSE ep

\* schedule_reconnect: a new _reconnect task unless the task last made is
\* not done; task is the state of self.reconnect_task as the caller sees it
\* ("running" from inside the task itself), n the tasks that are not done
schedule_reconnect(task, n) ==
  IF task \in {"sleeping", "running"}
  THEN [task |-> task, n |-> n]
  ELSE [task |-> "sleeping", n |-> n + 1]

\* connect_to_hyperliquid: a new session that holds allMids and a new
\* listener task, or is_connected = False and schedule_reconnect; called
\* from _reconnect, the task is done when the call returns
connect_to_hyperliquid(ok, in_reconnect_task) ==
  IF ok
  THEN /\ hyperliquid_ws' = "open"
       /\ is_connected' = TRUE
       /\ hl_active' = [t \in Topics |-> IF t = AllMids THEN 1 ELSE 0]
       /\ listeners' = listeners + 1
       /\ reconnect_task' = IF in_reconnect_task THEN "done" ELSE reconnect_task
       /\ reconnect_tasks' = IF in_reconnect_task THEN reconnect_tasks - 1
                             ELSE reconnect_tasks
  ELSE LET r == schedule_reconnect(IF in_reconnect_task THEN "running"
                                   ELSE reconnect_task, reconnect_tasks)
       IN /\ is_connected' = FALSE
          /\ reconnect_task' = IF r.task = "running" THEN "done" ELSE r.task
          /\ reconnect_tasks' = IF in_reconnect_task THEN r.n - 1 ELSE r.n
          /\ UNCHANGED <<hyperliquid_ws, hl_active, listeners>>

\* main.py lifespan: await ws_manager.connect_to_hyperliquid()
Startup(ok) ==
  /\ ~started
  /\ started' = TRUE
  /\ connect_to_hyperliquid(ok, FALSE)
  /\ UNCHANGED <<client_connections, client_subscriptions, subscribed_users,
                 ep, alive, cont, bc, net, msgs, orderVars, apiVars, posVars, raceVars, clockVars>>

\* _reconnect after its sleep
Reconnect(ok) ==
  /\ reconnect_task = "sleeping"
  /\ connect_to_hyperliquid(ok, TRUE)
  /\ UNCHANGED <<client_connections, client_subscriptions, subscribed_users,
                 started, ep, alive, cont, bc, net, msgs, orderVars, apiVars, posVars, raceVars, clockVars>>

\* the upstream connection is lost
UpstreamClose ==
  /\ hyperliquid_ws = "open"
  /\ hyperliquid_ws' = "closed"
  /\ UNCHANGED <<client_connections, client_subscriptions, subscribed_users,
                 is_connected, reconnect_task, reconnect_tasks, listeners, started, ep, alive, cont,
                 bc, hl_active, net, msgs, orderVars, apiVars, posVars, raceVars, clockVars>>

\* a listener that handles the error and schedules the reconnect, and then
\* goes on reading
ListenerClosed_keeps_reading ==
  /\ listeners > 0
  /\ cont[Listener] = << >>
  /\ hyperliquid_ws = "closed"
  /\ LET r == schedule_reconnect(reconnect_task, reconnect_tasks)
     IN /\ reconnect_task' = r.task
        /\ reconnect_tasks' = r.n
  /\ listeners' = listeners
  /\ is_connected' = FALSE
  /\ UNCHANGED <<client_connections, client_subscriptions, subscribed_users,
                 hyperliquid_ws, started, ep, alive, cont, bc, hl_active, net, msgs, orderVars, apiVars, posVars, raceVars, clockVars>>

\* listen_to_hyperliquid: ConnectionClosed or another error ends the
\* iteration; is_connected = False, then schedule_reconnect
ListenerClosed ==
  /\ listeners > 0
  /\ cont[Listener] = << >>
  /\ hyperliquid_ws = "closed"
  /\ LET r == schedule_reconnect(reconnect_task, reconnect_tasks)
     IN /\ reconnect_task' = r.task
        /\ reconnect_tasks' = r.n
  /\ listeners' = listeners - 1
  /\ is_connected' = FALSE
  /\ UNCHANGED <<client_connections, client_subscriptions, subscribed_users,
                 hyperliquid_ws, started, ep, alive, cont, bc, hl_active, net, msgs, orderVars, apiVars, posVars, raceVars, clockVars>>

\* listen_to_hyperliquid: the iteration over the socket ends without an
\* exception (the session was closed normally); the task returns
ListenerEnded ==
  /\ listeners > 0
  /\ cont[Listener] = << >>
  /\ hyperliquid_ws = "closed"
  /\ listeners' = listeners - 1
  /\ UNCHANGED <<client_connections, client_subscriptions, subscribed_users,
                 is_connected, hyperliquid_ws, reconnect_task, reconnect_tasks,
                 started, ep, alive, cont, bc, hl_active, net, msgs, orderVars, apiVars, posVars, raceVars, clockVars>>

\* listen_to_hyperliquid / handle_hyperliquid_message: one upstream frame of
\* channel allMids (kind "all") or of a per-user channel (kind "user")
UpstreamFrame(kind, u, order, atomic) ==
  /\ listeners > 0
  /\ cont[Listener] = << >>
  /\ hyperliquid_ws = "open"
  /\ client_connections # {}
  /\ LET b == [phase |-> "iter", kind |-> kind, user |-> u,
               size |-> Cardinality(client_connections), rest |-> order,
               failed |-> << >>, got |-> {}, start |-> client_connections]
         s == Exec([Mgr(<<Stmt("iter", NoUser, "")>>) EXCEPT !.bc = b],
                   hyperliquid_ws, is_connected, alive, atomic)
     IN /\ client_connections' = s.conns
        /\ client_subscriptions' = s.subs
        /\ subscribed_users' = s.susers
        /\ hl_active' = s.active
        /\ net' = s.net
        /\ cont' = [cont EXCEPT ![Listener] = s.todo]
        /\ bc' = IF s.todo = << >> THEN NoBc ELSE s.bc
  /\ UNCHANGED <<is_connected, hyperliquid_ws, reconnect_task, reconnect_tasks, listeners,
                 started, ep, alive, msgs, orderVars, apiVars, posVars, raceVars, clockVars>>

\* main.py websocket_endpoint: add_client
ClientConnect(c) ==
  /\ started
  /\ ep[c] = "new"
  /\ ep' = [ep EXCEPT ![c] = "open"]
  /\ client_connections' = client_connections \cup {c}
  /\ UNCHANGED <<client_subscriptions, subscribed_users, is_connected,
                 hyperliquid_ws, reconnect_task, reconnect_tasks, listeners, started, alive, cont,
                 bc, hl_active, net, msgs, orderVars, apiVars, posVars, raceVars, clockVars>>

\* websocket_endpoint: receive_text, then handle_client_message with a
\* subscribe_user_data or unsubscribe_user_data message
ClientMessage(c, type, u, atomic) ==
  /\ ep[c] = "open"
  /\ cont[c] = << >>
  /\ msgs < MaxMsgs
  /\ msgs' = msgs + 1
  /\ Run(c, <<Stmt(type, u, c)>>, atomic)
  /\ UNCHANGED <<is_connected, hyperliquid_ws, reconnect_task, reconnect_tasks, listeners,
                 started, alive, orderVars, apiVars, posVars, raceVars, clockVars>>

\* websocket_endpoint: receive_text raises, finally remove_client
ClientDisconnect(c, atomic) ==
  /\ ep[c] = "open"
  /\ cont[c] = << >>
  /\ alive' = [alive EXCEPT ![c] = FALSE]
  /\ LET s == Exec(Mgr(<<Stmt("remove", NoUser, c)>>), hyperliquid_ws,
                   is_connected, alive, atomic)
     IN /\ client_connections' = s.conns
        /\ client_subscriptions' = s.subs
        /\ subscribed_users' = s.susers
        /\ hl_active' = s.active
        /\ net' = s.net
        /\ cont' = [cont EXCEPT ![c] = s.todo]
        /\ ep' = [ep EXCEPT ![c] = IF s.todo = << >> THEN "closed" ELSE "closing"]
  /\ UNCHANGED <<is_connected, hyperliquid_ws, reconnect_task, reconnect_tasks, listeners,
                 started, bc, msgs, orderVars, apiVars, posVars, raceVars, clockVars>>

\* the peer of a client socket goes away; the endpoint has not yet noticed
PeerDown(c) ==
  /\ ep[c] = "open"
  /\ alive[c]
  /\ alive' = [alive EXCEPT ![c] = FALSE]
  /\ UNCHANGED <<client_connections, client_subscriptions, subscribed_users,
                 is_connected, hyperliquid_ws, reconnect_task, reconnect_tasks, listeners,
                 started, ep, cont, bc, hl_active, net, msgs, orderVars, apiVars, posVars, raceVars, clockVars>>

\* a suspended task is resumed
Resume(p) ==
  /\ cont[p] # << >>
  /\ Run(p, cont[p], FALSE)
  /\ UNCHANGED <<is_connected, hyperliquid_ws, reconnect_task, reconnect_tasks, listeners,
                 started, alive, msgs, orderVars, apiVars, posVars, raceVars, clockVars>>

UserMessages == {"subscribe", "unsubscribe"}

FrameKinds == {<<"all", NoUser>>} \cup ({"user"} \X Users)

\* the steps of the client side of the multiplexer
ClientSteps(atomic) ==
  \/ \E ok \in BOOLEAN : Startup(ok)
  \/ \E f \in FrameKinds, order \in Orders(Clients) :
       UpstreamFrame(f[1], f[2], order, atomic)
  \/ \E c \in Clients : ClientConnect(c)
  \/ \E c \in Clients, type \in UserMessages, u \in Users :
       ClientMessage(c, type, u, atomic)
  \/ \E c \in Clients : ClientDisconnect(c, atomic)
  \/ \E c \in Clients : PeerDown(c)

\* loss of the upstream connection and the reconnect task
UpstreamSteps ==
  \/ \E ok \in BOOLEAN : Reconnect(ok)
  \/ UpstreamClose
  \/ ListenerClosed
  \/ ListenerEnded

\* client operations and upstream frames handled one at a time, over an
\* upstream connection that can be lost and re-established
WsSeqNext == ClientSteps(TRUE) \/ UpstreamSteps

\* handlers interleaving at their suspension points, over the upstream
\* session made at start-up
WsNext ==
  \/ ClientSteps(FALSE)
  \/ \E p \in Procs : Resume(p)

(***************************************************************************)
(* HyperliquidAPIClient: circuit breaker, rate limit and retry loop of     *)
(* _make_request.  Time is counted in ticks, TicksPerSecond to the second. *)
(* A call is a task; what runs between two awaits is one step: the breaker *)
(* check with the first pass through _rate_limit, the wake-up from the     *)
(* rate-limit sleep, the arrival of the HTTP response, the wake-up from    *)
(* the backoff sleep.                                                      *)
(***************************************************************************)
Seconds(n) == n * TicksPerSecond

\* response classes: 200, 4xx, any other status (5xx), asyncio.TimeoutError,
\* any other exception
ResponseClasses == {"ok", "client", "server", "timeout", "network"}

Retriable == {"server", "timeout", "network"}

Idle ==
  [pc |-> "idle", attempt |-> 0, wake |-> 0, stamp |-> 0, last |-> "none",
   probe |-> FALSE, http |-> 0, records |-> 0]

NoRet ==
  [result |-> "none", http |-> 0, records |-> 0, last |-> "none", probe |-> FALSE]

\* CircuitBreaker.can_execute at time t: the breaker after the call and the
\* answer
can_execute(cb, t) ==
  IF cb.state = "closed" THEN [cb |-> cb, ok |-> TRUE]
  ELSE IF cb.state = "open"
  THEN IF t - cb.last_failure_time[1] > Seconds(recovery_timeout)
       THEN [cb |-> [cb EXCEPT !.state = "half_open", !.half_open_calls = 0],
             ok |-> TRUE]
       ELSE [cb |-> cb, ok |-> FALSE]
  ELSE [cb |-> cb, ok |-> cb.half_open_calls < half_open_max_calls]

\* a breaker that stays half-open when a probe succeeds
on_success_stays_half_open(cb) ==
  [cb EXCEPT !.failure_count = 0, !.half_open_calls = 0]

\* CircuitBreaker.on_success
on_success(cb) ==
  [cb EXCEPT !.state = IF @ = "half_open" THEN "closed" ELSE @,
             !.failure_count = 0,
             !.half_open_calls = 0]

\* a breaker that opens one failure early
on_failure_opens_early(cb, t) ==
  LET c1 == [cb EXCEPT !.failure_count = @ + 1, !.last_failure_time = <<t>>]
  IN IF c1.state = "half_open" THEN [c1 EXCEPT !.state = "open"]
     ELSE IF c1.failure_count >= failure_threshold - 1
          THEN [c1 EXCEPT !.state = "open"]
          ELSE c1

\* CircuitBreaker.on_failure at time t
on_failure(cb, t) ==
  LET c1 == [cb EXCEPT !.failure_count = @ + 1, !.last_failure_time = <<t>>]
  IN IF c1.state = "half_open" THEN [c1 EXCEPT !.state = "open"]
     ELSE IF c1.failure_count >= failure_threshold
          THEN [c1 EXCEPT !.state = "open"]
          ELSE c1

\* _rate_limit at time t, up to its sleep: the cleaned list and the time to
\* sleep; without a sleep the stamp t is appended at once
rate_limit(ts, t) ==
  LET clean == SelectSeq(ts, LAMBDA x : t - x < Seconds(1)) IN
    IF Len(clean) >= max_requests_per_second /\ Seconds(1) - (t - clean[1]) > 0
    THEN [ts |-> clean, sleep |-> Seconds(1) - (t - clean[1])]
    ELSE [ts |-> Append(clean, t), sleep |-> 0]

\* the delay before the retry that follows the given attempt, in ticks
backoff_delay(attempt) == Seconds(Min(base_delay * 2 ^ attempt, max_delay))

ApiInit ==
  /\ circuit_breaker = [state |-> "closed", failure_count |-> 0,
                        last_failure_time |-> << >>, half_open_calls |-> 0]
  /\ request_timestamps = << >>
  /\ now = 0
  /\ call = [c \in Tasks |-> Idle]
  /\ ret = NoRet
  /\ streak = 0
  /\ dispatched = << >>
  /\ calls = 0
  /\ advances = 0
  /\ batch = [ids |-> << >>, success |-> TRUE, open_orders |-> << >>,
              requests |-> 0, results |-> [x \in {} |-> << >>]]

\* the task c passes through _rate_limit and, unless it has to sleep, sends
\* the HTTP request of its attempt
EnterAttempt(c, rec) ==
  LET rl == rate_limit(request_timestamps, now) IN
    /\ request_timestamps' = rl.ts
    /\ IF rl.sleep > 0
       THEN /\ call' = [call EXCEPT ![c] = [rec EXCEPT !.pc = "rate_limit",
                                                       !.wake = now + rl.sleep,
                                                       !.stamp = now]]
            /\ dispatched' = dispatched
       ELSE /\ call' = [call EXCEPT ![c] = [rec EXCEPT !.pc = "http", !.wake = 0,
                                                       !.http = @ + 1]]
            /\ dispatched' = Append(dispatched, now)

\* the call of task c returns
Return(c, result, rec) ==
  /\ ret' = [result |-> result, http |-> rec.http, records |-> rec.records,
             last |-> rec.last, probe |-> rec.probe]
  /\ call' = [call EXCEPT ![c] = Idle]
  /\ streak' = IF result = "ok" THEN 0
               ELSE IF result = "fail" THEN streak + 1
               ELSE streak

\* _make_request up to its first await: can_execute, then the first attempt
BeginCall(c, maxCalls) ==
  /\ call[c].pc = "idle"
  /\ \A d \in Tasks : d < c => call[d].pc # "idle"
  /\ calls < maxCalls
  /\ calls' = calls + 1
  /\ LET r == can_execute(circuit_breaker, now) IN
       /\ circuit_breaker' = r.cb
       /\ IF r.ok
          THEN /\ EnterAttempt(c, [Idle EXCEPT !.probe = (r.cb.state = "half_open")])
               /\ UNCHANGED <<ret, streak>>
          ELSE /\ Return(c, "rejected", Idle)
               /\ UNCHANGED <<request_timestamps, dispatched>>
  /\ UNCHANGED <<now, advances, batch, orderVars, wsVars, posVars, raceVars, clockVars>>

\* _rate_limit after its sleep: the stamp taken before the sleep is
\* appended, then the request is sent
WakeRate(c) ==
  /\ call[c].pc = "rate_limit"
  /\ now >= call[c].wake
  /\ request_timestamps' = Append(request_timestamps, call[c].stamp)
  /\ call' = [call EXCEPT ![c].pc = "http", ![c].wake = 0, ![c].stamp = 0,
                           ![c].http = @ + 1]
  /\ dispatched' = Append(dispatched, now)
  /\ UNCHANGED <<circuit_breaker, now, ret, streak, calls, advances, batch,
                 orderVars, wsVars, posVars, raceVars, clockVars>>

\* a retry loop that also retries after a 4xx response
Respond_retries_client(c, class) ==
  /\ call[c].pc = "http"
  /\ LET rec == [call[c] EXCEPT !.last = class] IN
       IF class = "ok"
       THEN /\ circuit_breaker' = on_success(circuit_breaker)
            /\ Return(c, "ok", [rec EXCEPT !.records = @ + 1])
       ELSE IF rec.attempt >= max_retries
       THEN /\ circuit_breaker' = on_failure(circuit_breaker, now)
            /\ Return(c, "fail", [rec EXCEPT !.records = @ + 1])
       ELSE /\ call' = [call EXCEPT ![c] =
                          [rec EXCEPT !.pc = "backoff",
                                      !.wake = now + backoff_delay(rec.attempt)]]
            /\ UNCHANGED <<circuit_breaker, ret, streak>>
  /\ UNCHANGED <<request_timestamps, now, dispatched, calls, advances, batch,
                 orderVars, wsVars, posVars, raceVars, clockVars>>

\* the response of the attempt of task c, or the exception raised instead
Respond(c, class) ==
  /\ call[c].pc = "http"
  /\ LET rec == [call[c] EXCEPT !.last = class] IN
       IF class = "ok"
       THEN /\ circuit_breaker' = on_success(circuit_breaker)
            /\ Return(c, "ok", [rec EXCEPT !.records = @ + 1])
       ELSE IF class = "client" \/ rec.attempt >= max_retries
       THEN /\ circuit_breaker' = on_failure(circuit_breaker, now)
            /\ Return(c, "fail", [rec EXCEPT !.records = @ + 1])
       ELSE /\ call' = [call EXCEPT ![c] =
                          [rec EXCEPT !.pc = "backoff",
                                      !.wake = now + backoff_delay(rec.attempt)]]
            /\ UNCHANGED <<circuit_breaker, ret, streak>>
  /\ UNCHANGED <<request_timestamps, now, dispatched, calls, advances, batch,
                 orderVars, wsVars, posVars, raceVars, clockVars>>

\* the backoff sleep is over: the next attempt
WakeBackoff(c) ==
  /\ call[c].pc = "backoff"
  /\ now >= call[c].wake
  /\ EnterAttempt(c, [call[c] EXCEPT !.attempt = @ + 1])
  /\ UNCHANGED <<circuit_breaker, now, ret, streak, calls, advances, batch,
                 orderVars, wsVars, posVars, raceVars, clockVars>>

\* d ticks pass
Advance(d, maxAdvances) ==
  /\ advances < maxAdvances
  /\ advances' = advances + 1
  /\ now' = now + d
  /\ dispatched' = SelectSeq(dispatched, LAMBDA x : now + d - x < Seconds(1))
  /\ UNCHANGED <<circuit_breaker, request_timestamps, call, ret, streak, calls,
                 batch, orderVars, wsVars, posVars, raceVars, clockVars>>

\* exchange order ids as the API carries them (integers), and the value of
\* order.get('order', {}).get('oid') for an entry without one
ExchangeIds == {101, 102}
NoOid == 0

\* entries of an openOrders response
OpenOrderEntries == [oid : ExchangeIds \cup {NoOid}, tag : {"a", "b"}]

\* sequences over S of length at most n
SeqsUpTo(S, n) == UNION {[1..k -> S] : k \in 0..n}

\* the lookup map of batch_get_order_statuses: a later entry of the
\* response replaces an earlier one with the same oid
RECURSIVE open_orders_map(_, _)
open_orders_map(open_orders, i) ==
  IF i = 0 THEN [x \in {} |-> << >>]
  ELSE LET m == open_orders_map(open_orders, i - 1)
           e == open_orders[i]
       IN IF e.oid = NoOid THEN m
          ELSE [x \in DOMAIN m \cup {e.oid} |-> IF x = e.oid THEN <<e>> ELSE m[x]]

\* a batch query that asks the API once per order id
batch_get_order_statuses_per_id(order_ids, success, open_orders) ==
  IF order_ids = << >> THEN [requests |-> 0, results |-> [x \in {} |-> << >>]]
  ELSE IF ~success
  THEN [requests |-> Len(order_ids), results |-> [x \in RangeOf(order_ids) |-> << >>]]
  ELSE LET m == open_orders_map(open_orders, Len(open_orders)) IN
         [requests |-> Len(order_ids),
          results |-> [x \in RangeOf(order_ids) |->
                         IF x \in DOMAIN m THEN m[x] ELSE << >>]]

\* batch_get_order_statuses, given what get_open_orders returns: the
\* get_open_orders calls made and the result dict (<< >> stands for None,
\* <<e>> for the entry e)
batch_get_order_statuses(order_ids, success, open_orders) ==
  IF order_ids = << >> THEN [requests |-> 0, results |-> [x \in {} |-> << >>]]
  ELSE IF ~success
  THEN [requests |-> 1, results |-> [x \in RangeOf(order_ids) |-> << >>]]
  ELSE LET m == open_orders_map(open_orders, Len(open_orders)) IN
         [requests |-> 1,
          results |-> [x \in RangeOf(order_ids) |->
                         IF x \in DOMAIN m THEN m[x] ELSE << >>]]

\* one call of batch_get_order_statuses
BatchGetOrderStatuses(order_ids, success, open_orders) ==
  /\ LET r == batch_get_order_statuses(order_ids, success, open_orders) IN
       batch' = [ids |-> order_ids, success |-> success,
                 open_orders |-> open_orders,
                 requests |-> r.requests, results |-> r.results]
  /\ UNCHANGED <<circuit_breaker, request_timestamps, now, call, ret, streak,
                 dispatched, calls, advances, orderVars, wsVars, posVars, raceVars, clockVars>>

BatchNext ==
  \E order_ids \in SeqsUpTo(ExchangeIds, MaxIds), success \in BOOLEAN,
     open_orders \in SeqsUpTo(OpenOrderEntries, MaxOpenOrders) :
    BatchGetOrderStatuses(order_ids, IF success THEN TRUE ELSE FALSE,
                          IF success THEN open_orders ELSE << >>)

\* calls made one after the other by one task, with whole seconds and the
\* recovery timeout passing between the steps
ApiSeqNext ==
  \/ BeginCall(1, MaxCalls)
  \/ \E class \in ResponseClasses : Respond(1, class)
  \/ WakeBackoff(1)
  \/ \E d \in {Seconds(1), Seconds(recovery_timeout)} : Advance(d, MaxSeqAdvances)

\* calls of two tasks, with whole seconds and the recovery timeout passing
\* between the steps (so few calls never fill the window of _rate_limit)
ApiNext ==
  \/ \E c \in 1..2 : BeginCall(c, MaxCalls)
  \/ \E c \in 1..2, class \in ResponseClasses : Respond(c, class)
  \/ \E c \in 1..2 : WakeBackoff(c)
  \/ \E d \in {Seconds(1), Seconds(recovery_timeout)} : Advance(d, MaxAdvances)

\* calls of many tasks that the API answers at once with 200 or 4xx, around
\* the end of the recovery timeout
ProbeNext ==
  \/ \E c \in Tasks : BeginCall(c, MaxProbeCalls)
  \/ \E c \in Tasks, class \in {"ok", "client"} : Respond(c, class)
  \/ Advance(Seconds(recovery_timeout) + 1, MaxAdvances)

\* bursts of calls that the API answers with 200, tick by tick
RateNext ==
  \/ \E c \in 1..2 : BeginCall(c, MaxRateCalls)
  \/ \E c \in 1..2 : WakeRate(c)
  \/ \E c \in 1..2 : Respond(c, "ok")
  \/ Advance(1, MaxRateAdvances)

(***************************************************************************)
(* Position snapshots (app/websocket.py, handle_position_updates_for_      *)
(* telegram).  Every position of a snapshot has the entry price EntryPx,   *)
(* so that the P&L percentage of a position of size 1 is its P&L.          *)
(***************************************************************************)
Abs(x) == IF x < 0 THEN 0 - x ELSE x

EntryPx == 100
ExitPx == 110
PnLs == {5, 30, 0 - 60}
ClosedPnls == {3, 20}
\* a min_notification_amount a user has set, next to the default
MinAmount == 10

significant_thresholds == <<10, 25, 50>>

Thresholds == {significant_thresholds[i] : i \in DOMAIN significant_thresholds}

NotificationKeys == Users \X Coins \X Thresholds

\* a coin without an entry in a positions dictionary
Absent == [key |-> FALSE, size |-> 0, unrealized_pnl |-> 0, entry_px |-> 0]

Positions ==
  {[key |-> TRUE, size |-> 0, unrealized_pnl |-> 0, entry_px |-> EntryPx]}
    \cup {[key |-> TRUE, size |-> 1, unrealized_pnl |-> p, entry_px |-> EntryPx] :
            p \in PnLs}

\* assetPositions of a webData2 frame, by coin
Snapshots == [Coins -> Positions \cup {Absent}]

NoCloseFill == [px |-> 0, sz |-> 0, closedPnl |-> 0]

\* the answers of get_recent_close_fills: the most recent close fill of the
\* last ten minutes of each coin, if there is one
CloseFills == {NoCloseFill} \cup [px : {ExitPx}, sz : {1}, closedPnl : ClosedPnls]

DefaultSettings ==
  [fill_notifications |-> TRUE, pnl_notifications |-> TRUE,
   min_notification_amount |-> 0]

NotificationSettings ==
  [fill_notifications : BOOLEAN, pnl_notifications : BOOLEAN,
   min_notification_amount : {0, MinAmount}]

PosInit ==
  /\ user_positions = [u \in Users |-> [c \in Coins |-> Absent]]
  /\ sent_notifications = {}
  /\ alerts = [k \in NotificationKeys |-> 0]
  /\ pos_out = {}

\* abs_pnl_pct >= threshold, with pnl_percentage =
\* unrealized_pnl / (position_size * entry_px) * 100
Crosses(p, threshold) ==
  Abs(p.unrealized_pnl) * 100 >= threshold * p.size * p.entry_px

PnlAlert(coin, p, threshold) ==
  [kind |-> "pnl_alert", coin |-> coin, threshold |-> threshold,
   exit_price |-> 0, size |-> p.size, pnl |-> p.unrealized_pnl]

\* close_notification_data: the most recent close fill, or the last stored
\* position when the fills query returned none
CloseMessage(coin, prev, close_fill) ==
  IF close_fill # NoCloseFill
  THEN [kind |-> "position_closed", coin |-> coin, threshold |-> 0,
        exit_price |-> close_fill.px, size |-> close_fill.sz,
        pnl |-> close_fill.closedPnl]
  ELSE [kind |-> "position_closed", coin |-> coin, threshold |-> 0,
        exit_price |-> prev.entry_px, size |-> prev.size,
        pnl |-> prev.unrealized_pnl]

CloseMessages_ungated(coins, previous, closes, settings) ==
  {CloseMessage(c, previous[c], closes[c]) : c \in coins}

\* the messages of the positions of `coins` that closed: one for each whose
\* realized P&L reaches min_notification_amount
CloseMessages(coins, previous, closes, settings) ==
  {msg \in {CloseMessage(c, previous[c], closes[c]) : c \in coins} :
     Abs(msg.pnl) >= settings.min_notification_amount}

\* the loop over significant_thresholds from the i-th: the threshold an alert
\* is sent and recorded under, 0 if no alert is sent
RECURSIVE threshold_alert_unrecorded(_, _, _, _, _, _)
threshold_alert_unrecorded(sent, u, coin, p, settings, i) ==
  IF i > Len(significant_thresholds) THEN 0
  ELSE LET threshold == significant_thresholds[i] IN
    IF Crosses(p, threshold)
    THEN IF Abs(p.unrealized_pnl) >= settings.min_notification_amount
         THEN threshold ELSE 0
    ELSE threshold_alert_unrecorded(sent, u, coin, p, settings, i + 1)

RECURSIVE threshold_alert(_, _, _, _, _, _)
threshold_alert(sent, u, coin, p, settings, i) ==
  IF i > Len(significant_thresholds) THEN 0
  ELSE LET threshold == significant_thresholds[i] IN
    IF Crosses(p, threshold) /\ <<u, coin, threshold>> \notin sent
    THEN IF Abs(p.unrealized_pnl) >= settings.min_notification_amount
         THEN threshold ELSE 0
    ELSE threshold_alert(sent, u, coin, p, settings, i + 1)

PosState == [pos |-> user_positions, sent |-> sent_notifications, out |-> {}]

\* handle_position_updates_for_telegram for a frame of user u with the
\* positions `snapshot`, the fills queries answering `closes`
handle_position_updates(st, u, snapshot, closes) ==
  LET settings == notification_settings[u]
      previous == st.pos[u]
      asset_positions == {c \in Coins : snapshot[c].key}
      held == {c \in Coins : previous[c].key /\ previous[c].size > 0}
  IN IF u \notin LinkedUsers \/ ~settings.pnl_notifications
     THEN [st EXCEPT !.out = {}]
     ELSE IF asset_positions = {}
     THEN IF \E c \in Coins : previous[c].key
          THEN [pos |-> [st.pos EXCEPT ![u] = [c \in Coins |-> Absent]],
                sent |-> st.sent,
                out |-> CloseMessages(held, previous, closes, settings)]
          ELSE [st EXCEPT !.out = {}]
     ELSE LET opened == {c \in Coins : snapshot[c].key /\ snapshot[c].size > 0
                                         /\ snapshot[c].entry_px > 0}
              alert(c) == threshold_alert(st.sent, u, c, snapshot[c], settings, 1)
              alerted == {c \in opened : alert(c) # 0}
              closed == {c \in held : snapshot[c].size = 0}
          IN [pos |-> [st.pos EXCEPT ![u] = snapshot],
              sent |-> {k \in st.sent \cup {<<u, c, alert(c)>> : c \in alerted} :
                          ~(k[1] = u /\ k[2] \in closed)},
              out |-> {PnlAlert(c, snapshot[c], alert(c)) : c \in alerted}
                        \cup CloseMessages(closed, previous, closes, settings)]

\* a webData2 frame of user u is handled.  `alerts` counts the threshold
\* messages of each key since the position last showed no size
HandlePositionUpdates(u, snapshot, closes) ==
  LET st == handle_position_updates(PosState, u, snapshot, closes) IN
    /\ user_positions' = st.pos
    /\ sent_notifications' = st.sent
    /\ pos_out' = st.out
    /\ alerts' =
         [k \in NotificationKeys |->
            IF k[1] # u THEN alerts[k]
            ELSE IF snapshot[k[2]].size = 0 THEN 0
            ELSE IF \E msg \in st.out : /\ msg.kind = "pnl_alert"
                                        /\ msg.coin = k[2]
                                        /\ msg.threshold = k[3]
                 THEN Min(alerts[k] + 1, MaxNotes)
                 ELSE alerts[k]]
    /\ UNCHANGED <<notification_settings, orderVars, wsVars, apiVars, raceVars, clockVars>>

\* the fills of a coin are queried only when its position has closed
PosNext ==
  \E u \in Users, snapshot \in Snapshots, closes \in [Coins -> CloseFills] :
    /\ \A c \in Coins :
         closes[c] # NoCloseFill =>
           user_positions[u][c].size > 0 /\ snapshot[c].size = 0
    /\ HandlePositionUpdates(u, snapshot, closes)

(***************************************************************************)
(* The push handler and the polling pass as two tasks.  Neither holds a    *)
(* lock; a task is suspended where it awaits the API or the notification   *)
(* callback (which looks the chat id up), and trigger_event runs without   *)
(* a suspension.                                                           *)
(***************************************************************************)
NoPush == [user |-> "none", uo |-> << >>, rest |-> << >>]

NoRace ==
  [phase |-> "idle",
   m0 |-> [ctx |-> [o \in OrderIds |-> NoCtx], ret |-> FALSE,
           sent |-> [k \in ChatKinds |-> 0],
           price |-> [o \in OrderIds |-> NoPrice]],
   user |-> "none", fills |-> << >>, polled |-> {}, found |-> FALSE,
   fills_success |-> FALSE, recent_fills |-> << >>]

RaceInit ==
  /\ push = NoPush
  /\ race = NoRace

\* what the batch request and get_user_fills return to one polling pass
PollAnswers ==
  {[found |-> TRUE, fills_success |-> FALSE, recent_fills |-> << >>],
   [found |-> FALSE, fills_success |-> FALSE, recent_fills |-> << >>]} \cup
  {[found |-> FALSE, fills_success |-> TRUE, recent_fills |-> l] :
     l \in FillLists(MaxPx, 1)}

\* the fills lists of one or two entries a push frame carries, the sizes of
\* which do not add up to more than an order can have
RaceFrames ==
  {l \in UNION {[1..k -> Fills] : k \in 1..2} :
     SumSz(l, Len(l)) <= MaxSize}

\* _process_fill_events from the first fill of `rest` up to the await of
\* send_notification for the first fill that matches a tracker, or to the
\* end of the list: the machine and the fills left
RECURSIVE process_fills_until_await(_, _, _)
process_fills_until_await(m, uo, rest) ==
  IF rest = << >> THEN [m |-> m, rest |-> rest]
  ELSE LET fill == Head(rest) IN
    IF fill.oid # NoXid /\ MatchFill(m.ctx, uo, fill, 1) # 0
    THEN [m |-> ProcessFill(m, uo, fill), rest |-> Tail(rest)]
    ELSE process_fills_until_await(m, uo, Tail(rest))

\* handle_websocket_event is entered with a fills frame while a polling pass
\* waits for its batch request.  `race` keeps the state and the inputs of the
\* two tasks: the frame, and what the API is going to answer the pass
PushBegin(u, fills, answer) ==
  /\ race.phase = "idle"
  /\ polling # {}
  /\ ws_events < MaxWsEvents
  /\ UserOrders(ctx, u) # << >>
  /\ push' = [user |-> u, uo |-> UserOrders(ctx, u), rest |-> fills]
  /\ race' = [phase |-> "run", m0 |-> Machine, user |-> u, fills |-> fills,
              polled |-> polling, found |-> answer.found,
              fills_success |-> answer.fills_success,
              recent_fills |-> answer.recent_fills]
  /\ UNCHANGED <<orderVars, wsVars, apiVars, posVars, clockVars>>

\* the push handler runs to its next await, or to its end
PushStep ==
  /\ push.rest # << >>
  /\ LET r == process_fills_until_await(Machine, push.uo, push.rest) IN
       /\ ctx' = r.m.ctx
       /\ notifications' = r.m.sent
       /\ fill_price' = r.m.price
       /\ push' = [push EXCEPT !.rest = r.rest]
       /\ ws_events' = IF r.rest = << >> THEN ws_events + 1 ELSE ws_events
  /\ UNCHANGED <<created, sm_orders, order_trackers, is_active, signing,
                 stale, expired, polling, orders_to_poll, race,
                 wsVars, apiVars, posVars, clockVars>>

\* the polling pass gets its answers and handles one order
PollResume(o) ==
  /\ race.phase = "run"
  /\ PollApply(o, race.found, race.fills_success, race.recent_fills)

\* one order is set up (a SUBMIT or CONFIRM_OPEN of the state machine can
\* carry its exchange order id), a polling pass starts, and a frame arrives
RaceNext ==
  \/ /\ race.phase = "idle"
     /\ polling = {}
     /\ \/ \E o \in OneOrder, u \in Users, a \in Assets, sz \in Sizes :
             StartOrderTracking(o, u, a, sz)
        \/ \E o \in OneOrder, c \in DirectCalls : DirectTrigger(o, c.event, c.data)
        \/ \E S \in SUBSET OneOrder : PollStart(S)
  \/ \E u \in Users, fills \in RaceFrames, answer \in PollAnswers :
       PushBegin(u, fills, answer)
  \/ PushStep
  \/ \E o \in OneOrder : PollResume(o)

\* two orders of one user on one asset, under direct calls of the state
\* machine
PairNext ==
  \/ \E o \in OrderIds, sz \in Sizes : StartOrderTracking(o, "u1", 4, sz)
  \/ \E o \in OrderIds, c \in DirectCalls : DirectTrigger(o, c.event, c.data)
  \/ \E S \in SUBSET OrderIds : CleanupOldOrders(S)

(***************************************************************************)
(* The tracker under its clock.  Time is counted in seconds and passes     *)
(* from one wake-up of _polling_loop to the next; requests and handlers    *)
(* take no time, so a signing request and a polling pass are over before   *)
(* the clock moves.                                                        *)
(***************************************************************************)
TrackingStrategy == {"websocket_only", "polling_only", "hybrid"}

\* the TrackingConfig of OrderTrackingService
tracking_duration_seconds == 3600
polling_interval_seconds == 15
websocket_timeout_seconds == 45

\* the age up to which _process_fill_events correlates a fill by asset and size
correlation_seconds == 300

\* last_websocket_update of a tracker that has recorded no push frame
NoTime == 0 - 1

ClockInit ==
  /\ clock = 0
  /\ strategy = "hybrid"
  /\ created_at = [o \in OrderIds |-> 0]
  /\ last_websocket_update = [o \in OrderIds |-> NoTime]
  /\ next_pass = 0
  /\ pushed = {}

\* OrderTracker.should_use_polling_fallback at the time `clock`
should_use_polling_fallback(o) ==
  IF strategy = "polling_only" THEN TRUE
  ELSE IF strategy = "websocket_only" THEN FALSE
  ELSE IF last_websocket_update[o] # NoTime
       THEN clock - last_websocket_update[o] > websocket_timeout_seconds
       ELSE clock - created_at[o] > websocket_timeout_seconds

\* the signing endpoint at the time `clock`: StartOrderTracking with the
\* tracker's created_at
TrackOrderAt(o, u, a, sz) ==
  /\ o \notin created
  /\ Len(order_trackers) < max_concurrent_orders
  /\ o \notin RangeOf(order_trackers)
  /\ o \notin sm_orders
  /\ created' = created \cup {o}
  /\ ctx' = [ctx EXCEPT ![o] =
               [user |-> u, asset_index |-> a, size |-> sz, filled_size |-> 0,
                remaining_size |-> sz - 0, state |-> "pending",
                previous_state |-> "none", exchange_order_id |-> NoXid]]
  /\ sm_orders' = sm_orders \cup {o}
  /\ order_trackers' = Append(order_trackers, o)
  /\ is_active' = is_active \cup {o}
  /\ signing' = signing \cup {o}
  /\ created_at' = [created_at EXCEPT ![o] = clock]
  /\ UNCHANGED <<stale, expired, polling, ws_events, orders_to_poll,
                 notifications, fill_price, wsVars, apiVars, posVars, raceVars,
                 clock, strategy, last_websocket_update, next_pass, pushed>>

\* the trackers the fills and order updates of a frame are attributed to
Concerned(c, uo, fills, updates) ==
  ({MatchFill(c, uo, fills[i], 1) :
      i \in {j \in 1..Len(fills) : fills[j].oid # NoXid}} \cup
   {MatchXid(c, uo, updates[i].oid, 1) :
      i \in {j \in 1..Len(updates) : updates[j].oid # NoXid}}) \ {0}

\* handle_websocket_event at the time `clock`, with record_websocket_event
\* for every tracker of user_orders
HandleWebsocketEventAt(u, fills, updates) ==
  LET uo == UserOrders(ctx, u)
      m2 == handle_websocket_event(Machine, u, fills, updates)
  IN /\ ws_events < MaxWsEvents
     /\ uo # << >>
     /\ ctx' = m2.ctx
     /\ ws_events' = ws_events + 1
     /\ notifications' = m2.sent
     /\ fill_price' = m2.price
     /\ last_websocket_update' =
          [o \in OrderIds |-> IF o \in RangeOf(uo) THEN clock
                              ELSE last_websocket_update[o]]
     /\ pushed' = pushed \cup Concerned(ctx, uo, fills, updates)
     /\ UNCHANGED <<created, sm_orders, order_trackers, is_active, signing,
                    stale, expired, polling, orders_to_poll,
                    wsVars, apiVars, posVars, raceVars,
                    clock, strategy, created_at, next_pass>>

\* a pass of _polling_loop at the end of its sleep, up to the batch request
\* of _poll_user_orders, which covers the selected orders that have an
\* exchange order id
PollingLoop ==
  LET selected == {o \in RangeOf(order_trackers) :
                     should_continue_tracking(o) /\ should_use_polling_fallback(o)}
  IN /\ clock = next_pass
     /\ polling = {}
     /\ orders_to_poll' = selected
     /\ polling' = {o \in selected : ctx[o].exchange_order_id # NoXid}
     /\ next_pass' = clock + polling_interval_seconds
     /\ UNCHANGED <<created, ctx, sm_orders, order_trackers, is_active, signing,
                    stale, expired, ws_events, notifications, fill_price,
                    wsVars, apiVars, posVars, raceVars,
                    clock, strategy, created_at, last_websocket_update, pushed>>

\* the sleep of _polling_loop: the clock reaches the next wake-up
Tick ==
  /\ signing = {}
  /\ polling = {}
  /\ clock < next_pass
  /\ clock < MaxClock
  /\ clock' = next_pass
  /\ stale' = {o \in created : next_pass - created_at[o] >= correlation_seconds}
  /\ expired' = {o \in created :
                   next_pass - created_at[o] > tracking_duration_seconds}
  /\ UNCHANGED <<created, ctx, sm_orders, order_trackers, is_active, signing,
                 polling, ws_events, orders_to_poll, notifications, fill_price,
                 wsVars, apiVars, posVars, raceVars,
                 strategy, created_at, last_websocket_update, next_pass, pushed>>

\* the push frames of the clocked tracker: a fill or an order update
ClockFrames ==
  {fr \in PushFrames :
     /\ \A i \in 1..Len(fr.fills) : fr.fills[i].sz = 1 /\ fr.fills[i].px = 1
     /\ \A i \in 1..Len(fr.userEvents) : fr.userEvents[i].status = "open"}

\* one order, which gets its exchange order id with the SUBMIT event or from
\* a fill, under the polling loop and the push frames of its user, which are
\* about this order or about other orders of the user
ClockNext ==
  \/ \E o \in OneOrder : TrackOrderAt(o, "u1", 4, 1)
  \/ \E o \in OneOrder : SigningSubmit(o)
  \/ \E o \in OneOrder, x \in Oids :
       DirectTrigger(o, "submit", [NoData EXCEPT !.exchange_order_id = x])
  \/ \E fr \in ClockFrames : HandleWebsocketEventAt("u1", fr.fills, fr.userEvents)
  \/ PollingLoop
  \/ \E o \in OneOrder, found \in BOOLEAN : PollApply(o, found, FALSE, << >>)
  \/ PollFail
  \/ \E o \in OneOrder : StopTrackingOrder(o)
  \/ Tick

\* one order of the signing endpoint under the push stream, the polling
\* loop, a manual stop, the clock and the cleanup loop
CleanupNext ==
  \/ \E o \in OneOrder, sz \in Sizes : StartOrderTracking(o, "u1", 4, sz)
  \/ \E o \in OneOrder : SigningSubmit(o)
  \/ \E fr \in PushFrames : HandleWebsocketEvent("u1", fr.fills, fr.userEvents)
  \/ \E S \in SUBSET OneOrder : PollStart(S)
  \/ \E o \in OneOrder, found, fills_success \in BOOLEAN,
        recent_fills \in FillLists(MaxPx, 1) :
       PollApply(o, found, fills_success, recent_fills)
  \/ PollFail
  \/ \E o \in OneOrder : StopTrackingOrder(o)
  \/ \E o \in OneOrder : BecomeStale(o)
  \/ \E o \in OneOrder : BecomeExpired(o)
  \/ \E o \in OneOrder : CleanupTracker(o)
  \/ \E S \in SUBSET OneOrder : CleanupOldOrders(S)

\* every user with the settings a new account has
Init ==
  /\ OrderInit /\ WsInit /\ ApiInit /\ PosInit /\ RaceInit /\ ClockInit
  /\ notification_settings = [u \in Users |-> DefaultSettings]

\* the linked user with any settings
InitSettings(category) ==
  /\ OrderInit /\ WsInit /\ ApiInit /\ PosInit /\ RaceInit /\ ClockInit
  /\ \E settings \in {s \in NotificationSettings : s[category]} :
       notification_settings =
         [u \in Users |-> IF u \in LinkedUsers THEN settings ELSE DefaultSettings]

SpecOrders == Init /\ [][OrderNext]_vars

SpecSigned == Init /\ [][SignedNext]_vars

SpecPoll == Init /\ [][PollNext]_vars

SpecPos == InitSettings("fill_notifications") /\ [][PosNext]_vars

SpecNotify == InitSettings("pnl_notifications") /\ [][SignedNext]_vars

SpecRace == Init /\ [][RaceNext]_vars

SpecPair == Init /\ [][PairNext]_vars

\* the signing request returns, the clock goes on, and the cleanup loop runs
\* every minute
SpecCleanup ==
  /\ Init /\ [][CleanupNext]_vars
  /\ WF_vars(\E o \in OneOrder : SigningSubmit(o))
  /\ WF_vars(\E o \in OneOrder : BecomeStale(o))
  /\ WF_vars(\E o \in OneOrder : BecomeExpired(o))
  /\ WF_vars(\E o \in OneOrder : CleanupTracker(o))
  /\ WF_vars(\E S \in SUBSET OneOrder : CleanupOldOrders(S))

\* the clocked tracker under each strategy
InitClock ==
  /\ OrderInit /\ WsInit /\ ApiInit /\ PosInit /\ RaceInit
  /\ notification_settings = [u \in Users |-> DefaultSettings]
  /\ clock = 0
  /\ strategy \in TrackingStrategy
  /\ created_at = [o \in OrderIds |-> 0]
  /\ last_websocket_update = [o \in OrderIds |-> NoTime]
  /\ next_pass = 0
  /\ pushed = {}

SpecClock == InitClock /\ [][ClockNext]_vars

SpecWsSeq == Init /\ [][WsSeqNext]_vars

SpecWs == Init /\ [][WsNext]_vars

SpecApiSeq == Init /\ [][ApiSeqNext]_vars

SpecApi == Init /\ [][ApiNext]_vars

SpecProbe == Init /\ [][ProbeNext]_vars

SpecRate == Init /\ [][RateNext]_vars

SpecBatch == Init /\ [][BatchNext]_vars

\* the event loop runs every task that can run: the listener of a closed
\* socket ends, the reconnect task wakes up after its sleep and dials
SpecWsLive ==
  /\ Init /\ [][WsSeqNext]_vars
  /\ WF_vars(ListenerClosed \/ ListenerEnded)
  /\ WF_vars(\E ok \in BOOLEAN : Reconnect(ok))

(***************************************************************************)
(* Properties of the order lifecycle                                       *)
(***************************************************************************)
\* C1: once an order's state is Filled, Cancelled, Rejected, Expired or
\* Failed, no step of any path (direct trigger_event, push fill frame, push
\* order-status frame, poll result) changes its state again.
C1_TerminalAbsorbing ==
  [][\A o \in OrderIds :
       is_terminal_state(ctx[o].state) => ctx'[o].state = ctx[o].state]_orderVars

\* a Filled order that a later push fill was attributed to (the tracker's
\* own accumulation ran past the size) and that is still Filled
C1_Witness ==
  \E o \in OrderIds :
    ctx[o].state = "filled" /\ ctx[o].filled_size > ctx[o].size

\* the transition table as the specification lists it: <<s, event, d>>
SpecTable ==
  {<<"pending", "submit", "submitted">>, <<"pending", "fail", "failed">>,
   <<"submitted", "confirm_open", "open">>,
   <<"submitted", "complete_fill", "filled">>,
   <<"submitted", "reject", "rejected">>, <<"submitted", "fail", "failed">>,
   <<"open", "partial_fill", "partially_filled">>,
   <<"open", "complete_fill", "filled">>, <<"open", "cancel", "cancelled">>,
   <<"open", "expire", "expired">>, <<"open", "reject", "rejected">>,
   <<"partially_filled", "partial_fill", "partially_filled">>,
   <<"partially_filled", "complete_fill", "filled">>,
   <<"partially_filled", "cancel", "cancelled">>,
   <<"partially_filled", "expire", "expired">>}

\* C2: trigger_event moves an order from s to d only when (s, event) -> d is
\* in the table, and for every table entry it performs the move and returns
\* True; every other event returns False and leaves the state; an order that
\* has just been created is in Pending.
C2_TransitionTable ==
  /\ [](\A o \in sm_orders, c \in DirectCalls :
          LET s == ctx[o].state
              m == trigger_event(Machine, sm_orders, o, c.event, c.data)
          IN IF \E d \in OrderState : <<s, c.event, d>> \in SpecTable
             THEN m.ret /\ <<s, c.event, m.ctx[o].state>> \in SpecTable
             ELSE ~m.ret /\ m.ctx[o].state = s)
  /\ [][\A o \in OrderIds :
          /\ o \notin created /\ o \in created' => ctx'[o].state = "pending"
          /\ o \in created /\ ctx'[o].state # ctx[o].state =>
               \E e \in OrderEvent :
                 <<ctx[o].state, e, ctx'[o].state>> \in SpecTable]_orderVars

\* an order that trigger_event has moved Submitted -> Open
C2_Witness ==
  \E o \in sm_orders :
    ctx[o].state = "open" /\ ctx[o].previous_state = "submitted"

\* C3: for every tracked order, filled_size + remaining_size = size and
\* 0 <= filled_size <= size.
C3_FillAccounting ==
  \A o \in RangeOf(order_trackers) :
    /\ ctx[o].filled_size + ctx[o].remaining_size = ctx[o].size
    /\ 0 <= ctx[o].filled_size
    /\ ctx[o].filled_size <= ctx[o].size

(***************************************************************************)
(* Properties of the WebSocket multiplexer                                 *)
(***************************************************************************)
\* the clients in client_connections whose subscription has user u
Referencing(u) == {c \in client_connections : client_subscriptions[c] = u}

\* the upstream session is live and holds both per-user topics of u
Held(t) == hl_active[t] > 0

\* a handle_user_data_subscription for user u is in progress in task c
InSubscribe(c, u) ==
  \E i \in 1..Len(cont[c]) :
    cont[c][i].i \in {"store", "checksub", "add"} /\ cont[c][i].u = u

\* C4: when client operations run one at a time, u is in subscribed_users
\* if and only if some connected client's subscription has user u.
C4_SubscribedIffReferenced ==
  \A u \in Users : u \in subscribed_users <=> Referencing(u) # {}

\* C5: when a step takes u out of subscribed_users (the end of a disconnect
\* or unsubscribe that was suspended at its upstream send), no connected
\* client's subscription has user u: a client that subscribed to u in between
\* still finds u in subscribed_users and the upstream still holding u.
C5_NoLostSubscription ==
  [][\A u \in Users :
       u \in subscribed_users /\ u \notin subscribed_users' =>
         \A c \in client_connections' : client_subscriptions'[c] # u]_vars

\* C6: while the upstream session is up, it holds userEvents and webData2
\* of user u if and only if some client's subscription references u.
C6_UpstreamHoldsIffReferenced ==
  (hyperliquid_ws = "open" /\ is_connected) =>
    \A u \in Users :
      /\ Referencing(u) # {} =>
           Held(<<"userEvents", u>>) /\ Held(<<"webData2", u>>)
      /\ (Held(<<"userEvents", u>>) \/ Held(<<"webData2", u>>)) =>
           \E c \in Clients : client_subscriptions[c] = u

\* C7: when client operations run one at a time, a subscribe frame for
\* (channel, u) is sent only by an operation before which no connected client
\* referenced u, and subscribe frames minus unsubscribe frames sent is 0 or 1
\* for every (channel, user).
C7_AtMostOneSubscription ==
  /\ [](\A t \in UserTopics : net[t] \in {0, 1})
  /\ [][\A t \in UserTopics :
          hl_active'[t] > hl_active[t] => Referencing(t[2]) = {}]_vars

\* C8: while two handle_user_data_subscription handlers for the same user u
\* are in progress, the upstream session has received at most one subscribe
\* frame per (channel, u).
C8_NoDuplicateSubscribe ==
  \A t \in UserTopics :
    (\E c1, c2 \in Clients :
       c1 # c2 /\ InSubscribe(c1, t[2]) /\ InSubscribe(c2, t[2]))
    => hl_active[t] <= 1

\* C9: a per-user frame for u is handed only to clients whose subscription
\* user is u at that moment, and when the broadcast of an allMids frame
\* ends, every client that was connected from its start to its end, with its
\* peer there, has been handed the frame.
C9_Delivery ==
  [][/\ \A x \in Clients :
          (bc'.kind = "user" /\ x \in bc'.got /\ x \notin bc.got) =>
            client_subscriptions[x] = bc'.user
     /\ (bc.kind = "all" /\ bc.phase = "iter" /\ bc'.phase # "iter") =>
          \A x \in bc.start \cap client_connections : alive[x] => x \in bc.got
    ]_vars

\* C10: the step in which the reconnect task re-establishes the upstream
\* session after the socket was lost leaves the new session holding allMids
\* and, for every user referenced by a client, userEvents and webData2 (a
\* session that holds both has been sent both frames; the handlers send
\* userEvents before webData2).
C10_ResubscribeOnReconnect ==
  [][(hyperliquid_ws = "closed" /\ reconnect_task = "sleeping" /\ is_connected') =>
       /\ hl_active'[AllMids] > 0
       /\ \A u \in Users :
            Referencing(u) # {} =>
              hl_active'[<<"userEvents", u>>] > 0 /\ hl_active'[<<"webData2", u>>] > 0
    ]_vars

\* the multiplexer has an upstream session
Connected == is_connected /\ hyperliquid_ws = "open"

\* C11: if from some point on no dial of the reconnect task fails (the
\* upstream accepts connections), then whenever the multiplexer is without
\* an upstream session after start-up (failed dial, lost socket, listener
\* error) it eventually has one again.
C11_EventuallyReconnected ==
  (<>[][~Reconnect(FALSE)]_vars) => [](started /\ ~Connected => <>Connected)

\* C12: in every reachable state at most one _reconnect task is pending or
\* running and at most one listen_to_hyperliquid task is running.
C12_SingletonTasks ==
  reconnect_tasks <= 1 /\ listeners <= 1

\* a reconnect task is pending after the listener of a lost socket ended
C12_Witness ==
  /\ reconnect_tasks = 1
  /\ reconnect_task = "sleeping"
  /\ hyperliquid_ws = "closed"
  /\ listeners = 0
(***************************************************************************)
(* Properties of the API client                                            *)
(***************************************************************************)
\* time since the last recorded failure
Elapsed == now - circuit_breaker.last_failure_time[1]

\* the step sends an HTTP request of task c
Dispatch(c) == call[c].pc # "http" /\ call'[c].pc = "http"

\* in the step the call of task c gets its outcome and returns
Returned(c) == call[c].pc = "http" /\ call'[c].pc = "idle"

\* the step is a new call that the breaker turns away: nothing is sent
Rejected ==
  /\ calls' = calls + 1
  /\ call' = call
  /\ ret'.result = "rejected"
  /\ UNCHANGED <<dispatched, request_timestamps, circuit_breaker>>

\* C13: a Closed breaker opens exactly with the 5th failed call in a row
\* (no successful call in between); a call made while the breaker is Open
\* and at most recovery_timeout has passed since the last failure is turned
\* away without an HTTP request; a call made later is admitted as a probe
\* and moves the breaker to HalfOpen.
C13_BreakerOpens ==
  /\ [](circuit_breaker.state = "closed" => streak < failure_threshold)
  /\ [][
         /\ (circuit_breaker.state = "closed" /\ circuit_breaker'.state # "closed")
              => (circuit_breaker'.state = "open" /\ streak' = failure_threshold)
         /\ (calls' # calls /\ circuit_breaker.state = "open") =>
              IF Elapsed > Seconds(recovery_timeout)
              THEN /\ circuit_breaker'.state = "half_open"
                   /\ \E c \in Tasks :
                        call[c].pc = "idle" /\ call'[c].pc # "idle" /\ call'[c].probe
              ELSE Rejected
        ]_vars

\* the call after the 5th failure in a row was turned away, a second later
C13_Witness ==
  /\ circuit_breaker.state = "open"
  /\ streak = failure_threshold
  /\ ret.result = "rejected"
  /\ Elapsed = Seconds(1)

\* C14: while the breaker is HalfOpen at most half_open_max_calls admitted
\* probe calls are without a recorded outcome.
C14_HalfOpenProbeLimit ==
  circuit_breaker.state = "half_open" =>
    Cardinality({c \in Tasks : call[c].pc # "idle" /\ call[c].probe})
      <= half_open_max_calls

\* C15: a call outcome recorded while the breaker is HalfOpen closes the
\* breaker and resets the failure count when it is a success, and opens the
\* breaker with the recovery timeout restarted when it is a failure.
C15_HalfOpenOutcome ==
  [][\A c \in Tasks :
       (circuit_breaker.state = "half_open" /\ Returned(c)) =>
         IF ret'.result = "ok"
         THEN circuit_breaker'.state = "closed" /\ circuit_breaker'.failure_count = 0
         ELSE /\ ret'.result = "fail"
              /\ circuit_breaker'.state = "open"
              /\ circuit_breaker'.last_failure_time = <<now>>
    ]_vars

\* a probe succeeded and closed the breaker
C15_Witness ==
  /\ ret.probe
  /\ ret.result = "ok"
  /\ circuit_breaker.state = "closed"
  /\ circuit_breaker.failure_count = 0
  /\ circuit_breaker.last_failure_time # << >>

\* C16: no step sends an HTTP request while the breaker is Open and less
\* than recovery_timeout has passed since the last failure.
C16_NoRequestWhileOpen ==
  [][(circuit_breaker.state = "open" /\ Elapsed < Seconds(recovery_timeout))
       => \A c \in Tasks : ~Dispatch(c)]_vars

C18_RateLimit ==
  Len(dispatched) <= max_requests_per_second
\* C19: a batch query makes one get_open_orders call for a non-empty list
\* of ids and none for an empty one; the keys of its result are exactly the
\* ids; an id maps to an entry of the response with that oid when there is
\* one, and to None otherwise (also when the request failed).
C19_BatchContract ==
  /\ batch.requests = IF batch.ids = << >> THEN 0 ELSE 1
  /\ DOMAIN batch.results = RangeOf(batch.ids)
  /\ \A x \in RangeOf(batch.ids) :
       IF \E i \in 1..Len(batch.open_orders) : batch.open_orders[i].oid = x
       THEN \E i \in 1..Len(batch.open_orders) :
              /\ batch.open_orders[i].oid = x
              /\ batch.results[x] = <<batch.open_orders[i]>>
       ELSE batch.results[x] = << >>

\* a query for two ids of which the response holds one
C19_Witness ==
  /\ Len(batch.ids) = 2
  /\ batch.success
  /\ \E x, y \in RangeOf(batch.ids) :
       /\ batch.results[x] # << >>
       /\ batch.results[y] = << >>
  /\ \E i \in 1..Len(batch.open_orders) : batch.open_orders[i].oid = NoOid

\* C20: when a pass of the polling loop first finds an order due for the
\* fallback (tracked, not terminal, older than websocket_timeout) and no
\* push event has been processed, the API poll of that pass covers the
\* order; with a pass every polling_interval this is the bound
\* websocket_timeout + polling_interval on the order's first poll.
C20_FirstPollCoversOrder ==
  [][\A o \in OrderIds :
       (o \in orders_to_poll' /\ o \notin orders_to_poll /\ ws_events = 0)
         => o \in polling']_vars

\* C21: after a push frame with one fill has been handled and has moved
\* an order to another state, handling the same frame once more changes
\* neither the state nor the filled_size of any order.
C21_ReplayedFillIgnored ==
  [][\A u \in Users, f \in Fills :
       LET uo == UserOrders(ctx, u)
           first == process_fill_events(Machine, uo, <<f>>, 1).ctx
       IN (/\ uo # << >>
           /\ ws_events' = ws_events + 1
           /\ ctx' = first
           /\ \E o \in OrderIds : ctx'[o].state # ctx[o].state)
          => LET second == process_fill_events([Machine EXCEPT !.ctx = ctx'],
                                               UserOrders(ctx', u), <<f>>, 1).ctx
             IN \A o \in OrderIds :
                  /\ second[o].state = ctx'[o].state
                  /\ second[o].filled_size = ctx'[o].filled_size]_vars

\* an order that went Pending -> Submitted, has no exchange order id yet
\* and belongs to a user with a linked chat, and a fill for it: the size is
\* the order size and the coin maps to the order's asset
SubmittedUnbound(o, f) ==
  /\ o \in RangeOf(order_trackers) /\ o \in is_active /\ o \in sm_orders
  /\ ctx[o].state = "submitted" /\ ctx[o].previous_state = "pending"
  /\ ctx[o].exchange_order_id = NoXid
  /\ ctx[o].user \in LinkedUsers
  /\ notifications["order_filled"] = 0
  /\ f.oid # NoXid
  /\ f.sz = ctx[o].size
  /\ CoinIndex(f.coin) = ctx[o].asset_index

\* the order after the fill f: Filled from Submitted, all of it filled, the
\* exchange order id bound, one order_filled message
FilledBy(m, o, f) ==
  /\ m.ctx[o].state = "filled" /\ m.ctx[o].previous_state = "submitted"
  /\ m.ctx[o].filled_size = m.ctx[o].size
  /\ m.ctx[o].exchange_order_id = f.oid
  /\ m.sent["order_filled"] = 1

C23_PartialFillsThenCancel ==
  \A o \in OrderIds, f1, f2 \in Fills :
    (/\ o \in RangeOf(order_trackers) /\ o \in is_active /\ o \in sm_orders
     /\ o \notin stale
     /\ ctx[o].state = "submitted" /\ ctx[o].previous_state = "pending"
     /\ ctx[o].exchange_order_id = NoXid
     /\ ctx[o].user \in LinkedUsers
     /\ notifications["order_cancelled_detected"] = 0
     /\ f1.oid # NoXid /\ f2.oid = f1.oid
     /\ CoinIndex(f1.coin) = ctx[o].asset_index
     /\ CoinIndex(f2.coin) = ctx[o].asset_index
     /\ f1.sz + f2.sz < ctx[o].size)
    => LET u == ctx[o].user
           m1 == handle_websocket_event(Machine, u, <<f1>>, << >>)
           m2 == handle_websocket_event(m1, u, <<f2>>, << >>)
           m3 == handle_websocket_event(m2, u, << >>,
                   <<[oid |-> f1.oid, status |-> "cancelled"]>>)
       IN /\ m2.ctx[o].state = "partially_filled"
          /\ m2.ctx[o].filled_size = f1.sz + f2.sz
          /\ m3.ctx[o].state = "cancelled"
          /\ m3.ctx[o].remaining_size = ctx[o].size - (f1.sz + f2.sz)
          /\ m3.sent["order_cancelled_detected"] = 1

\* the fills of a userFills response that carry the order's exchange id
MatchingFills(o, recent_fills) ==
  SelectSeq(recent_fills,
            LAMBDA fill : fill.oid = IntOf(ctx[o].exchange_order_id))

C28_OneAlertPerKey ==
  \A k \in NotificationKeys : alerts[k] <= 1

\* a position that has already drawn an alert under each of two thresholds
C28_Witness ==
  \E u \in Users, c \in Coins :
    /\ user_positions[u][c].size > 0
    /\ Cardinality({t \in Thresholds : alerts[<<u, c, t>>] = 1}) >= 2
    /\ \E msg \in pos_out : msg.kind = "pnl_alert" /\ msg.coin = c

\* the users whose frames of positions are handled: a linked chat and the
\* P&L category enabled
PnlNotified ==
  {u \in LinkedUsers : notification_settings[u].pnl_notifications}

\* the frames of user u in which the position of `coin` has closed
ClosingFrames(u, coin) ==
  {f \in [snapshot : Snapshots, closes : [Coins -> CloseFills]] :
     /\ user_positions[u][coin].size > 0
     /\ f.snapshot[coin].size = 0}

\* the position-closed messages for `coin` among the messages `out`
ClosedOf(out, coin) ==
  {[exit_price |-> msg.exit_price, size |-> msg.size, pnl |-> msg.pnl] :
     msg \in {x \in out : x.kind = "position_closed" /\ x.coin = coin}}

\* what the message of a closed position has to tell
ClosureDetails(prev, close_fill) ==
  IF close_fill # NoCloseFill
  THEN [exit_price |-> close_fill.px, size |-> close_fill.sz,
        pnl |-> close_fill.closedPnl]
  ELSE [exit_price |-> prev.entry_px, size |-> prev.size,
        pnl |-> prev.unrealized_pnl]

\* C25: when a snapshot lacks, or shows with size 0, an asset the previous
\* snapshot held, exactly one position-closed message is emitted, with the
\* details of the most recent close fill or else of the prior position; the
\* stored snapshot then holds no position of the asset, and the same snapshot
\* delivered again emits no further close message.
C25_PositionClosed ==
  \A u \in PnlNotified, coin \in Coins : \A f \in ClosingFrames(u, coin) :
    LET st1 == handle_position_updates(PosState, u, f.snapshot, f.closes)
        st2 == handle_position_updates(st1, u, f.snapshot, f.closes)
    IN /\ ClosedOf(st1.out, coin) =
            {ClosureDetails(user_positions[u][coin], f.closes[coin])}
       /\ st1.pos[u][coin].size = 0
       /\ ClosedOf(st2.out, coin) = {}

\* C25 (amended): the message is emitted if the absolute realized P&L of the
\* closure reaches the user's min_notification_amount, and no message
\* otherwise; the rest as stated.
C25_PositionClosedAboveMinimum ==
  \A u \in PnlNotified, coin \in Coins : \A f \in ClosingFrames(u, coin) :
    LET st1 == handle_position_updates(PosState, u, f.snapshot, f.closes)
        st2 == handle_position_updates(st1, u, f.snapshot, f.closes)
        details == ClosureDetails(user_positions[u][coin], f.closes[coin])
    IN /\ ClosedOf(st1.out, coin) =
            IF Abs(details.pnl) >= notification_settings[u].min_notification_amount
            THEN {details} ELSE {}
       /\ st1.pos[u][coin].size = 0
       /\ ClosedOf(st2.out, coin) = {}

\* a closure has been reported with the details of a close fill while the
\* other position stayed open, under a minimum amount that is not zero
C25_Witness ==
  \E u \in PnlNotified, coin \in Coins :
    /\ notification_settings[u].min_notification_amount > 0
    /\ user_positions[u][coin].size = 0
    /\ \E other \in Coins : user_positions[u][other].size > 0
    /\ \E d \in ClosedOf(pos_out, coin) : d.exit_price = ExitPx

\* C26: whenever a position of (user, asset) flattens, every P&L-threshold
\* key of that (user, asset) is removed, both when other positions remain in
\* the snapshot and when the snapshot holds no position at all.
C26_KeysClearedOnFlatten ==
  \A u \in PnlNotified, coin \in Coins : \A f \in ClosingFrames(u, coin) :
    LET st1 == handle_position_updates(PosState, u, f.snapshot, f.closes)
    IN \A threshold \in Thresholds : <<u, coin, threshold>> \notin st1.sent

\* C27: when a snapshot shows |pnl_pct| at or above several thresholds, none
\* of them alerted yet for the (user, asset), one alert is emitted, recorded
\* under the highest threshold crossed, and the same snapshot delivered again
\* emits no further alert.
C27_HighestThresholdOnce ==
  \A u \in PnlNotified, coin \in Coins, snapshot \in Snapshots :
    LET p == snapshot[coin]
        crossed == {t \in Thresholds : Crosses(p, t)}
        st1 == handle_position_updates(PosState, u, snapshot, [c \in Coins |-> NoCloseFill])
        st2 == handle_position_updates(st1, u, snapshot, [c \in Coins |-> NoCloseFill])
        AlertsOf(out) == {msg \in out : msg.kind = "pnl_alert" /\ msg.coin = coin}
    IN /\ p.size > 0
       /\ Cardinality(crossed) >= 2
       /\ \A t \in Thresholds : <<u, coin, t>> \notin sent_notifications
       /\ Abs(p.unrealized_pnl) >= notification_settings[u].min_notification_amount
       => /\ \E t \in crossed :
               /\ \A t2 \in crossed : t2 <= t
               /\ AlertsOf(st1.out) = {PnlAlert(coin, p, t)}
               /\ <<u, coin, t>> \in st1.sent
          /\ AlertsOf(st2.out) = {}

\* C29: for every user-visible event a chat message is sent if and only if
\* the user has a linked chat id, the category of the event is enabled in the
\* user's settings and the notional value of the event is at least the
\* user's minimum.  Here the event is a fill that moves an order of the user,
\* its category is fills and its notional is price x size.
C29_NotificationGate ==
  \A u \in Users, f \in Fills :
    LET m == handle_websocket_event(Machine, u, <<f>>, << >>)
        settings == notification_settings[u]
        event == \E o \in created : ctx[o].user = u /\ m.ctx[o].state # ctx[o].state
        sent == \E kind \in ChatKinds : m.sent[kind] # notifications[kind]
        due == /\ u \in LinkedUsers
               /\ settings.fill_notifications
               /\ f.px * f.sz >= settings.min_notification_amount
    IN /\ sent => due
       /\ (event /\ due /\ \A kind \in ChatKinds : notifications[kind] < MaxNotes)
            => sent

\* the polling pass of the race applied to machine m in one piece
PollAll(m, polled) ==
  IF polled = {} THEN m
  ELSE LET o == CHOOSE x \in polled : TRUE IN
    IF race.found THEN handle_open_order_update(m, o)
    ELSE handle_missing_order(m, o, race.fills_success, race.recent_fills)

\* the push frame of the race applied to machine m in one piece
PushAll(m) == handle_websocket_event(m, race.user, race.fills, << >>)

Outcome(order) == <<order.state, order.filled_size>>

\* C30: for every interleaving of a push handler and a poll handler of one
\* order at their await points, the order's final state and filled_size are
\* those of applying the same push and poll events one after the other in
\* some order.
C30_PushPollSerialized ==
  (race.phase = "run" /\ push.rest = << >> /\ polling = {}) =>
    \A o \in race.polled :
      Outcome(ctx[o]) \in {Outcome(PollAll(PushAll(race.m0), race.polled).ctx[o]),
                           Outcome(PushAll(PollAll(race.m0, race.polled)).ctx[o])}

(***************************************************************************)
(* Properties of event handling, signing and the tracker's loops           *)
(***************************************************************************)
\* the event data of the direct calls, with and without a fill price
PricedCalls ==
  DirectCalls \cup
    {[event |-> c.event, data |-> [c.data EXCEPT !.fill_price = [num |-> 1, den |-> 1]]] :
       c \in DirectCalls}

\* event e is not in the transition table for the state of order o, or o is
\* not an order of the state machine
InvalidEvent(o, e) ==
  o \notin sm_orders \/ e \notin DOMAIN state_transitions[ctx[o].state]

\* C31: an event that is invalid in the order's current state, or addressed
\* to an unknown order id, makes trigger_event return False and leaves every
\* order unchanged: state, previous_state, filled_size, remaining_size,
\* exchange_order_id and metadata.
C31_InvalidEventNoChange ==
  \A o \in OrderIds, c \in PricedCalls :
    LET m == trigger_event(Machine, sm_orders, o, c.event, c.data)
    IN InvalidEvent(o, c.event) =>
         ~m.ret /\ m.ctx = ctx /\ m.price = fill_price /\ m.sent = notifications

\* a terminal order next to a live one and an order id the state machine has
\* dropped: events for the first and the third are invalid
C31_Witness ==
  \E o1, o2 \in sm_orders :
    /\ is_terminal_state(ctx[o1].state)
    /\ ctx[o2].state = "open"
    /\ InvalidEvent(o1, "complete_fill")
    /\ ~trigger_event(Machine, sm_orders, o1, "complete_fill", NoData).ret

\* C32: a successful signing request creates exactly one order with a fresh
\* tracking id, which is tracked, is an order of the state machine and, when
\* the request returns, is in state Submitted with no exchange_order_id; no
\* order comes to be tracked in any other way.
C32_TrackedIffSigned ==
  [][\A o \in OrderIds :
       /\ (o \notin created /\ o \in created') =>
            /\ created' = created \cup {o}
            /\ o \in signing'
            /\ o \in RangeOf(order_trackers') /\ o \in sm_orders'
       /\ (o \in RangeOf(order_trackers') /\ o \notin RangeOf(order_trackers)) =>
            o \notin created
       /\ (o \in signing /\ o \notin signing') =>
            /\ o \in RangeOf(order_trackers') /\ o \in sm_orders'
            /\ ctx'[o].state = "submitted"
            /\ ctx'[o].previous_state = "pending"
            /\ ctx'[o].exchange_order_id = NoXid]_vars

\* this step is a pass of the polling loop, and the order has a tracker
PassOf(o) == next_pass' # next_pass /\ o \in RangeOf(order_trackers)

\* C33: a polling pass polls a tracked order exactly when the order is
\* active, not older than tracking_duration, not in a terminal state, and
\* the strategy is PollingOnly, or it is Hybrid and the last push frame (the
\* creation of the tracker, when no frame was received) is more than
\* websocket_timeout in the past
C33_PolledIffPredicates ==
  [][\A o \in OrderIds :
       PassOf(o) =>
         (o \in polling' <=>
            /\ o \in is_active
            /\ clock - created_at[o] <= tracking_duration_seconds
            /\ ~is_terminal_state(ctx[o].state)
            /\ \/ strategy = "polling_only"
               \/ /\ strategy = "hybrid"
                  /\ \/ /\ last_websocket_update[o] # NoTime
                        /\ clock - last_websocket_update[o] >
                             websocket_timeout_seconds
                     \/ /\ last_websocket_update[o] = NoTime
                        /\ clock - created_at[o] > websocket_timeout_seconds)]_vars

\* C34: a tracked order that is not in a terminal state and has an exchange
\* order id, which a poll finds missing from the open orders while the fills
\* query succeeds with no fill of that id, ends Cancelled
C34_MissingWithoutFillsCancelled ==
  \A o \in created :
    (/\ o \in RangeOf(order_trackers)
     /\ ~is_terminal_state(ctx[o].state)
     /\ ctx[o].exchange_order_id # NoXid) =>
      \A recent_fills \in FillLists(MaxPollPx, 1) :
        (\A i \in 1..Len(recent_fills) :
           recent_fills[i].oid # IntOf(ctx[o].exchange_order_id)) =>
          handle_missing_order(Machine, o, TRUE, recent_fills).ctx[o].state =
            "cancelled"

\* _poll_user_orders for one polled order, given what get_open_orders and
\* get_user_fills return
poll_user_orders(m, o, success, open_orders, fills_success, recent_fills) ==
  LET exchange_id == IntOf(m.ctx[o].exchange_order_id)
      order_statuses ==
        batch_get_order_statuses(<<exchange_id>>, success, open_orders).results
  IN IF order_statuses[exchange_id] = << >>
     THEN handle_missing_order(m, o, fills_success, recent_fills)
     ELSE handle_open_order_update(m, o)

\* C35: a polling pass whose openOrders request fails changes the state of
\* no tracked order, whatever the later requests of the pass return
C35_FailedPollChangesNothing ==
  \A o \in polling :
    \A fills_success \in BOOLEAN, recent_fills \in FillLists(MaxPollPx, 1) :
      poll_user_orders(Machine, o, FALSE, << >>, fills_success,
                       recent_fills).ctx = ctx

\* the user's active trackers that hold the exchange order id of a fill
Holders(u, fill) ==
  {t \in RangeOf(UserOrders(ctx, u)) : ctx[t].exchange_order_id = fill.oid}

\* C36: a push fill whose oid is the exchange order id of one of the user's
\* tracked orders is attributed to that order, and after the frame still no
\* other order of the user holds that id
C36_FillGoesToItsOrder ==
  \A u \in Users, fill \in Fills :
    \A b \in Holders(u, fill) :
      (fill.oid # NoXid /\ Holders(u, fill) = {b}) =>
        /\ MatchFill(ctx, UserOrders(ctx, u), fill, 1) = b
        /\ \A t \in RangeOf(UserOrders(ctx, u)) \ {b} :
             handle_websocket_event(Machine, u, <<fill>>, << >>).ctx[t]
               .exchange_order_id # fill.oid

\* C37: every order is eventually dropped from the tracker map and from the
\* order map of the state machine
C37_EventuallyDropped ==
  \A o \in OrderIds :
    (o \in created) ~> (o \notin RangeOf(order_trackers) /\ o \notin sm_orders)

\* C38: once stop_tracking_order has returned for an order, no push frame
\* and no poll result changes its state, filled_size or exchange order id
C38_StoppedOrderUntouched ==
  [][\A o \in OrderIds :
       (o \in RangeOf(order_trackers) /\ o \notin is_active /\ o \notin signing) =>
         /\ ctx'[o].state = ctx[o].state
         /\ ctx'[o].filled_size = ctx[o].filled_size
         /\ ctx'[o].exchange_order_id = ctx[o].exchange_order_id]_vars

\* the state machine applied a transition to the order in this step
Applied(o) ==
  \/ ctx'[o].state # ctx[o].state
  \/ /\ ctx[o].state = "partially_filled"
     /\ ctx'[o].filled_size # ctx[o].filled_size

\* C39: a chat notification of a fill or of a detected cancellation is sent
\* only in a step in which the state machine applied the transition to an
\* order
C39_NotifiedOnlyWhenApplied ==
  [][\A k \in ChatKinds :
       notifications'[k] > notifications[k] => \E o \in OrderIds : Applied(o)]_vars

\* C40: under the Hybrid strategy a tracked order that is not in a terminal
\* state, has an exchange order id and has itself received no push event is
\* polled by every pass that finds it older than websocket_timeout, so its
\* first poll comes within websocket_timeout + polling_interval, whatever
\* frames about other orders its user receives
C40_UnpushedOrderPolled ==
  [][\A o \in OrderIds :
       (/\ PassOf(o)
        /\ strategy = "hybrid"
        /\ should_continue_tracking(o)
        /\ ctx[o].exchange_order_id # NoXid
        /\ o \notin pushed
        /\ clock - created_at[o] > websocket_timeout_seconds) =>
         o \in polling']_vars

====
